---- MODULE Spec2Model ----
(***************************************************************************)
(* State-machine model of the encrypted file vault (secureiduploader):     *)
(* the file lifecycle handlers of backend/controllers/fileController.js,   *)
(* the File model (unnamed/part_002) and the User model                    *)
(* (backend/services/encryptionService.js, second half).                   *)
(*                                                                         *)
(* Every handler is an async function.  A request is a process whose       *)
(* program counter stands at one of the handler's awaits; one action of    *)
(* the model is the awaited database operation taking effect followed by   *)
(* the synchronous code up to the next await.  Requests in different       *)
(* slots interleave at these points.  Specifications with one slot run     *)
(* the same actions one request at a time.                                 *)
(*                                                                         *)
(* Byte counts are scaled: the storage limit and the file sizes are small  *)
(* numbers.  Names, folders, tags and the access log of a file record do   *)
(* not take part in the quota and share state and are left out of the      *)
(* record here.                                                            *)
(***************************************************************************)
EXTENDS Integers, Sequences, FiniteSets, TLC

VARIABLES
    storageUsed,   \* User.storageUsed, per user
    files,         \* the File collection: file id -> record, or NoFile
    disk,          \* the blob store: file id -> "absent" | "plain" | "enc"
    nextId,        \* number of blob ids handed out so far (uuidv4 is fresh)
    req,           \* the requests in flight, per slot
    resp,          \* the response the last step sent, NoResp when it sent none
    now,           \* Date.now(), in abstract ticks
    arrived,       \* number of requests received so far
    served,        \* history: per file, the limit its present share link was
                   \* created with (-1: none) and the share downloads that
                   \* have delivered the file since
    accounts,      \* the login fields of the User documents, per user
    jwts,          \* the bearer tokens issued so far, each [user, iat]
    fails,         \* history: per user, the failed logins in a row since the
                   \* last successful login or the last lock
    changed,       \* history: per user, the time the password was last
                   \* changed (NoDate: never)
    Uploader       \* the browser's Uploader object (upload queue), with the
                   \* queue items it has created and the timeouts it has set

authVars == <<accounts, jwts, fails, changed>>
vars == <<storageUsed, files, disk, nextId, req, resp, now, arrived, served, authVars,
          Uploader>>

-----------------------------------------------------------------------------
(* Bounds of the model *)

MaxFiles == 3        \* blob ids (uploads staged) in one run
StorageLimit == 1    \* User.storageLimit, scaled (default 1 GiB)
MaxRequests == 3     \* requests received in one run
MaxTime == 3         \* last tick of the clock

Users == {"alice", "bob"}
Reqs == {1, 2, 3}    \* request slots
FileIds == 1..MaxFiles
Sizes == {0, 1}      \* file.size of a staged file: an empty file, one unit
BatchLens == {1, 2}  \* files in one upload request (the code allows 10)

-----------------------------------------------------------------------------
(* Helpers *)

Max(a, b) == IF a >= b THEN a ELSE b

RECURSIVE SumSizes(_)
\* files.reduce((acc, file) => acc + file.size, 0)
SumSizes(batch) ==
    IF batch = <<>> THEN 0 ELSE Head(batch).size + SumSizes(Tail(batch))

RECURSIVE SumOver(_, _)
SumOver(S, f) ==
    IF S = {} THEN 0
    ELSE LET x == CHOOSE y \in S : TRUE IN f[x] + SumOver(S \ {x}, f)

NoFile == [user |-> "none"]
\* body: the ids of the files a listing or a get returned
NoResp == [user |-> "none", op |-> "none", status |-> 0, error |-> "none",
           body |-> <<>>, total |-> 0, folderCounts |-> {}]
\* the share fields of a document without a share link; -1 stands for a field
\* that is null or undefined, 0 for no token
NoShare == [shareToken |-> 0, shareExpires |-> -1, sharePassword |-> "none",
            maxDownloads |-> -1]
\* a Date field that is not set
NoDate == -9

\* bcrypt.hash(password, salt) with a 12-round salt
HashPassword(p) == "$2a$12$" \o p

\* the login fields of a User document as register leaves them
NewAccount(p) ==
    [password |-> HashPassword(p), loginAttempts |-> 0, lockUntil |-> NoDate,
     passwordChangedAt |-> NoDate]

\* no user document read, no updateOne prepared
NoAccount == [password |-> "none", loginAttempts |-> 0, lockUntil |-> NoDate,
              passwordChangedAt |-> NoDate]
NoUpdate == [kind |-> "none", lockUntil |-> NoDate]
\* no field set by an updateFile request
NoSet == [originalName |-> "unset", folder |-> "unset"]

\* a slot with no request.  batch: the staged files of an upload or the documents
\* a find returned, each [id, size, del]; i: position in the loop over batch;
\* used: the storageUsed read from the user document; acc: successfulSize or
\* freedSpace; at: the time a timestamp was taken; had: what fs.existsSync
\* returned for the blob of a permanent delete; share: the share fields a
\* shareFile request has set on its document; doc: the user document a login
\* or a password change has read, with the fields the request has set on it;
\* cand: the password the request supplies; upd: the updateOne that
\* incrementLoginAttempts has prepared; set: the fields an updateFile request
\* has set on its document
Idle == [pc |-> "idle", op |-> "none", user |-> "none", batch |-> <<>>,
         i |-> 0, perm |-> FALSE, used |-> 0, acc |-> 0, at |-> 0, had |-> TRUE,
         share |-> NoShare, doc |-> NoAccount, cand |-> "none", upd |-> NoUpdate,
         set |-> NoSet]

Response(u, op, status, error) ==
    [user |-> u, op |-> op, status |-> status, error |-> error, body |-> <<>>,
     total |-> 0, folderCounts |-> {}]

\* the schema defaults of a new File document
NewFile(u, size) ==
    [user |-> u, originalSize |-> size, isDeleted |-> FALSE, deletedAt |-> -1,
     shareToken |-> 0, shareExpires |-> -1, sharePassword |-> "none",
     maxDownloads |-> -1, downloadCount |-> 0,
     originalName |-> "name", folder |-> "/"]

Exists(f) == files[f] # NoFile

\* the find middleware: soft-deleted records are hidden unless includeDeleted
Visible(f, includeDeleted) ==
    Exists(f) /\ (includeDeleted \/ ~files[f].isDeleted)

OwnedBy(u) == {f \in FileIds : Exists(f) /\ files[f].user = u}

\* sum of the plaintext sizes of all records of u, soft-deleted ones included
RecordTotal(u) ==
    SumOver(OwnedBy(u), [f \in FileIds |-> IF Exists(f) THEN files[f].originalSize ELSE 0])

storageLimit == [u \in Users |-> StorageLimit]

-----------------------------------------------------------------------------
\* the Uploader object when the page has loaded (part_000, lines 6-9).  A
\* queue item is an object that the queue and the handlers of its request
\* refer to: items holds the objects by id (status "none": not created),
\* uploadQueue the ids in queue order.  currentXHR is the item of the last
\* request made (0: null), sending the item whose request is in flight
\* (0: none), timeouts the number of setTimeout callbacks not yet run.
\* History: sent (items whose request was sent), picked (files handed to
\* addFiles so far), cancelled (cancelUpload was invoked).
NewUploader ==
    [uploadQueue |-> <<>>, isUploading |-> FALSE, currentXHR |-> 0,
     items |-> [i \in 1..MaxFiles |-> [name |-> "", size |-> 0, status |-> "none"]],
     sending |-> 0, timeouts |-> 0,
     sent |-> {}, picked |-> 0, cancelled |-> FALSE]

Init ==
    /\ storageUsed = [u \in Users |-> 0]
    /\ files = [f \in FileIds |-> NoFile]
    /\ disk = [f \in FileIds |-> "absent"]
    /\ nextId = 0
    /\ req = [r \in Reqs |-> Idle]
    /\ resp = NoResp
    /\ now = 0
    /\ arrived = 0
    /\ served = [f \in FileIds |-> [limit |-> -1, count |-> 0]]
    /\ accounts = [u \in Users |-> NewAccount("pw")]
    /\ jwts = {}
    /\ fails = [u \in Users |-> 0]
    /\ changed = [u \in Users |-> NoDate]
    /\ Uploader = NewUploader

\* the request in slot r ends with this response
Finish(r, u, op, status, error) ==
    /\ req' = [req EXCEPT ![r] = Idle]
    /\ resp' = Response(u, op, status, error)

\* the request in slot r moves on to its next await
Goto(r, rec) ==
    /\ req' = [req EXCEPT ![r] = rec]
    /\ resp' = NoResp

\* an unlink that leaves the blob on the disk
Unlink_keepsBlob(d, f) == d

\* if (fs.existsSync(path)) fs.unlinkSync(path)
Unlink(d, f) == [d EXCEPT ![f] = "absent"]

RECURSIVE UnlinkAll(_, _)
\* files.forEach(file => { if (fs.existsSync(file.path)) fs.unlinkSync(file.path) })
UnlinkAll(d, batch) ==
    IF batch = <<>> THEN d ELSE UnlinkAll(Unlink(d, Head(batch).id), Tail(batch))

-----------------------------------------------------------------------------
(* uploadFiles *)

\* multer's disk storage has written the request's files under fresh names
StageUpload(r, u, sizes) ==
    /\ req[r].pc = "idle"
    /\ nextId + Len(sizes) <= MaxFiles
    /\ LET batch == [k \in 1..Len(sizes) |-> [id |-> nextId + k, size |-> sizes[k], del |-> FALSE]]
       IN /\ disk' = [f \in FileIds |->
                        IF f \in {nextId + k : k \in 1..Len(sizes)} THEN "plain" ELSE disk[f]]
          /\ nextId' = nextId + Len(sizes)
          /\ req' = [req EXCEPT ![r] = [Idle EXCEPT !.pc = "upFindUser", !.op = "upload",
                                                    !.user = u, !.batch = batch]]
          /\ resp' = NoResp
    /\ UNCHANGED <<Uploader, storageUsed, files, now, served, authVars>>

\* a check that compares the size of the request alone with the limit
QuotaExceeded_ignoringUsed(used, totalSize, limit) == totalSize > limit

\* the pre-upload check on the user document that findById returned
QuotaExceeded(used, totalSize, limit) == used + totalSize > limit

\* User.findById resolves; the storage limit is checked for the whole request
UploadCheckQuota(r) ==
    /\ req[r].pc = "upFindUser"
    /\ LET u == req[r].user
           totalSize == SumSizes(req[r].batch)
       IN IF QuotaExceeded(storageUsed[u], totalSize, storageLimit[u])
          THEN /\ disk' = UnlinkAll(disk, req[r].batch)
               /\ Finish(r, req[r].user, "upload", 400, "QuotaExceeded")
          ELSE /\ Goto(r, [req[r] EXCEPT !.pc = "upFile", !.i = 1,
                                         !.used = storageUsed[u], !.acc = 0])
               /\ UNCHANGED disk
    /\ UNCHANGED <<Uploader, storageUsed, files, nextId, now, served, authVars, arrived>>

\* one pass of the per-file loop that succeeds: checksum, encrypt in place,
\* checksum, File.create
UploadFile(r) ==
    /\ req[r].pc = "upFile"
    /\ LET b == req[r].batch[req[r].i]
           acc == req[r].acc + b.size
           last == req[r].i = Len(req[r].batch)
       IN /\ disk' = [disk EXCEPT ![b.id] = "enc"]
          /\ files' = [files EXCEPT ![b.id] = NewFile(req[r].user, b.size)]
          /\ IF ~last
             THEN Goto(r, [req[r] EXCEPT !.i = @ + 1, !.acc = acc])
             ELSE IF acc > 0
                  THEN Goto(r, [req[r] EXCEPT !.pc = "upSaveUser", !.acc = acc])
                  ELSE Finish(r, req[r].user, "upload", 201, "none")
    /\ UNCHANGED <<Uploader, storageUsed, nextId, now, served, authVars, arrived>>

\* an update that increments the stored counter instead of writing the
\* document's value
updateStorageUsed_increment(r) ==
    [storageUsed EXCEPT ![req[r].user] = @ + req[r].acc]

\* userSchema.methods.updateStorageUsed on the user document read at the start
\* of the request: this.storageUsed += bytes; save() writes the new value
updateStorageUsed(r) ==
    [storageUsed EXCEPT ![req[r].user] = req[r].used + req[r].acc]

UploadSaveUser(r) ==
    /\ req[r].pc = "upSaveUser"
    /\ storageUsed' = updateStorageUsed(r)
    /\ Finish(r, req[r].user, "upload", 201, "none")
    /\ UNCHANGED <<Uploader, files, disk, nextId, now, served, authVars, arrived>>

-----------------------------------------------------------------------------
(* The storage refund shared by deleteFile, emptyTrash and bulkDelete:      *)
(*   const user = await User.findById(req.user.id);                         *)
(*   user.storageUsed = Math.max(0, user.storageUsed - freed);              *)
(*   await user.save({ validateBeforeSave: false });                        *)

\* a decrement without the clamp
RefundedStorage_unclamped(used, freed) == used - freed

\* a decrement with its operands exchanged
RefundedStorage_swapped(used, freed) == Max(0, freed - used)

\* the clamped decrement
RefundedStorage(used, freed) == Max(0, used - freed)

\* User.findById resolves with the user document
RefundRead(r, pc, nextPc) ==
    /\ req[r].pc = pc
    /\ Goto(r, [req[r] EXCEPT !.pc = nextPc, !.used = storageUsed[req[r].user]])
    /\ UNCHANGED <<Uploader, storageUsed, files, disk, nextId, now, served, authVars, arrived>>

\* user.save() writes storageUsed when the assignment changed it on the document
SavedStorage(r) ==
    LET new == RefundedStorage(req[r].used, req[r].acc)
    IN IF new # req[r].used
       THEN [storageUsed EXCEPT ![req[r].user] = new]
       ELSE storageUsed

\* the document a find returned for file f
Doc(f) == [id |-> f, size |-> files[f].originalSize, del |-> files[f].isDeleted]

\* file.save() after softDelete(): isDeleted is written when the call changed
\* it on the document, deletedAt always
softDelete(rec, doc, t) ==
    [rec EXCEPT !.isDeleted = IF doc.del THEN @ ELSE TRUE, !.deletedAt = t]

\* file.save() after restore(): isDeleted := false, deletedAt unset
restore(rec) == [rec EXCEPT !.isDeleted = FALSE, !.deletedAt = -1]

-----------------------------------------------------------------------------
(* deleteFile *)

\* File.findOne({_id, user}) with includeDeleted resolves; a permanent delete
\* unlinks the blob, a soft delete marks the document
DeleteFind(r, u, f, permanent) ==
    /\ req[r].pc = "idle"
    /\ IF ~(Visible(f, TRUE) /\ files[f].user = u)
       THEN /\ Finish(r, u, "delete", 404, "NotFound")
            /\ UNCHANGED disk
       ELSE /\ req' = [req EXCEPT ![r] =
                        [Idle EXCEPT !.pc = IF permanent THEN "delFindUser" ELSE "delSoftSave",
                                     !.op = "delete", !.user = u, !.batch = <<Doc(f)>>,
                                     !.perm = permanent, !.acc = files[f].originalSize,
                                     !.at = now,
                                     !.had = permanent => disk[f] # "absent"]]
            /\ resp' = NoResp
            /\ disk' = IF permanent THEN Unlink(disk, f) ELSE disk
    /\ UNCHANGED <<Uploader, storageUsed, files, nextId, now, served, authVars>>

DeleteFindUser(r) == RefundRead(r, "delFindUser", "delSaveUser")

DeleteSaveUser(r) ==
    /\ req[r].pc = "delSaveUser"
    /\ storageUsed' = SavedStorage(r)
    /\ Goto(r, [req[r] EXCEPT !.pc = "delRecord"])
    /\ UNCHANGED <<Uploader, files, disk, nextId, now, served, authVars, arrived>>

\* file.deleteOne() resolves
DeleteRecord(r) ==
    /\ req[r].pc = "delRecord"
    /\ files' = [files EXCEPT ![req[r].batch[1].id] = NoFile]
    /\ Finish(r, req[r].user, "delete", 200, "none")
    /\ UNCHANGED <<Uploader, storageUsed, disk, nextId, now, served, authVars, arrived>>

\* a soft delete that refunds the quota
DeleteSoftSave_refunding(r) ==
    /\ req[r].pc = "delSoftSave"
    /\ LET d == req[r].batch[1]
       IN /\ files' = IF Exists(d.id)
                      THEN [files EXCEPT ![d.id] = softDelete(@, d, req[r].at)]
                      ELSE files
          /\ storageUsed' = [storageUsed EXCEPT ![req[r].user] = Max(0, @ - d.size)]
          /\ Finish(r, req[r].user, "softDelete", 200, "none")
    /\ UNCHANGED <<Uploader, disk, nextId, now, served, authVars, arrived>>

\* file.save() of the soft delete resolves (it fails when the record is gone)
DeleteSoftSave(r) ==
    /\ req[r].pc = "delSoftSave"
    /\ LET d == req[r].batch[1]
       IN IF Exists(d.id)
          THEN /\ files' = [files EXCEPT ![d.id] = softDelete(@, d, req[r].at)]
               /\ Finish(r, req[r].user, "softDelete", 200, "none")
          ELSE /\ UNCHANGED files
               /\ Finish(r, req[r].user, "softDelete", 500, "Internal")
    /\ UNCHANGED <<Uploader, storageUsed, disk, nextId, now, served, authVars, arrived>>

-----------------------------------------------------------------------------
(* restoreFile *)

\* File.findOne({_id, user, isDeleted: true}) with includeDeleted resolves
RestoreFind(r, u, f) ==
    /\ req[r].pc = "idle"
    /\ IF ~(Visible(f, TRUE) /\ files[f].user = u /\ files[f].isDeleted)
       THEN Finish(r, u, "restore", 404, "NotFound")
       ELSE /\ req' = [req EXCEPT ![r] =
                        [Idle EXCEPT !.pc = "restoreSave", !.op = "restore", !.user = u,
                                     !.batch = <<Doc(f)>>]]
            /\ resp' = NoResp
    /\ UNCHANGED <<Uploader, storageUsed, files, disk, nextId, now, served, authVars>>

RestoreSave(r) ==
    /\ req[r].pc = "restoreSave"
    /\ LET d == req[r].batch[1]
       IN IF Exists(d.id)
          THEN /\ files' = [files EXCEPT ![d.id] = restore(@)]
               /\ Finish(r, req[r].user, "restore", 200, "none")
          ELSE /\ UNCHANGED files
               /\ Finish(r, req[r].user, "restore", 500, "Internal")
    /\ UNCHANGED <<Uploader, storageUsed, disk, nextId, now, served, authVars, arrived>>

-----------------------------------------------------------------------------
(* emptyTrash and bulkDelete: a loop over the documents a find returned *)

RECURSIVE DocsOf(_, _)
\* the documents of the ids in S, in id order
DocsOf(S, k) ==
    IF k > MaxFiles THEN <<>>
    ELSE IF k \in S THEN <<Doc(k)>> \o DocsOf(S, k + 1) ELSE DocsOf(S, k + 1)

\* the loop body up to its await, for the document at position i: a permanent
\* delete unlinks the blob and adds the size to freedSpace before deleteOne
LoopEnter(r, rec, i) ==
    /\ req' = [req EXCEPT ![r] =
                 [rec EXCEPT !.i = i,
                             !.acc = IF rec.perm THEN @ + rec.batch[i].size ELSE @,
                             !.at = now]]
    /\ disk' = IF rec.perm THEN Unlink(disk, rec.batch[i].id) ELSE disk

\* the await of the loop body resolves (deleteOne, or save after softDelete);
\* the loop goes on, or the handler goes to the refund or responds
LoopStep(r, pc, userPc, op) ==
    /\ req[r].pc = pc
    /\ LET d == req[r].batch[req[r].i]
       IN files' = IF req[r].perm
                   THEN [files EXCEPT ![d.id] = NoFile]
                   ELSE IF Exists(d.id)
                        THEN [files EXCEPT ![d.id] = softDelete(@, d, req[r].at)]
                        ELSE files
    /\ IF req[r].i < Len(req[r].batch)
       THEN /\ LoopEnter(r, req[r], req[r].i + 1)
            /\ resp' = NoResp
       ELSE /\ UNCHANGED disk
            /\ IF req[r].perm /\ req[r].acc > 0
               THEN Goto(r, [req[r] EXCEPT !.pc = userPc])
               ELSE Finish(r, req[r].user, op, 200, "none")
    /\ UNCHANGED <<Uploader, storageUsed, nextId, now, served, authVars, arrived>>

\* File.find({user, isDeleted: true}) with includeDeleted resolves
EmptyTrashFind(r, u) ==
    /\ req[r].pc = "idle"
    /\ LET trash == {f \in OwnedBy(u) : files[f].isDeleted}
           rec == [Idle EXCEPT !.pc = "trashFile", !.op = "emptyTrash", !.user = u,
                               !.batch = DocsOf(trash, 1), !.perm = TRUE]
       IN IF trash = {}
          THEN /\ Finish(r, u, "emptyTrash", 200, "none")
               /\ UNCHANGED disk
          ELSE /\ LoopEnter(r, rec, 1)
               /\ resp' = NoResp
    /\ UNCHANGED <<Uploader, storageUsed, files, nextId, now, served, authVars>>

EmptyTrashFile(r) == LoopStep(r, "trashFile", "trashFindUser", "emptyTrash")

EmptyTrashFindUser(r) == RefundRead(r, "trashFindUser", "trashSaveUser")

EmptyTrashSaveUser(r) ==
    /\ req[r].pc = "trashSaveUser"
    /\ storageUsed' = SavedStorage(r)
    /\ Finish(r, req[r].user, "emptyTrash", 200, "none")
    /\ UNCHANGED <<Uploader, files, disk, nextId, now, served, authVars, arrived>>

\* File.find({_id: {$in: fileIds}, user}) with includeDeleted resolves
BulkDeleteFind(r, u, fileIds, permanent) ==
    /\ req[r].pc = "idle"
    /\ LET found == fileIds \cap OwnedBy(u)
           rec == [Idle EXCEPT !.pc = "bulkFile", !.op = "bulkDelete", !.user = u,
                               !.batch = DocsOf(found, 1), !.perm = permanent]
       IN IF found = {}
          THEN /\ Finish(r, u, "bulkDelete", 404, "NotFound")
               /\ UNCHANGED disk
          ELSE /\ LoopEnter(r, rec, 1)
               /\ resp' = NoResp
    /\ UNCHANGED <<Uploader, storageUsed, files, nextId, now, served, authVars>>

BulkDeleteFile(r) == LoopStep(r, "bulkFile", "bulkFindUser", "bulkDelete")

BulkDeleteFindUser(r) == RefundRead(r, "bulkFindUser", "bulkSaveUser")

BulkDeleteSaveUser(r) ==
    /\ req[r].pc = "bulkSaveUser"
    /\ storageUsed' = SavedStorage(r)
    /\ Finish(r, req[r].user, "bulkDelete", 200, "none")
    /\ UNCHANGED <<Uploader, files, disk, nextId, now, served, authVars, arrived>>

-----------------------------------------------------------------------------
(* Failing steps: a database call that rejects, a filesystem call that throws *)

\* uploadFiles: User.findById resolves to no user (the staged files are
\* unlinked, 404) or rejects (the error goes to the error handler, 500)
UploadFindUserFails(r, how) ==
    /\ req[r].pc = "upFindUser"
    /\ IF how = "missing"
       THEN /\ disk' = UnlinkAll(disk, req[r].batch)
            /\ Finish(r, req[r].user, "upload", 404, "NotFound")
       ELSE /\ UNCHANGED disk
            /\ Finish(r, req[r].user, "upload", 500, "Internal")
    /\ UNCHANGED <<Uploader, storageUsed, files, nextId, now, served, authVars, arrived>>

\* a failing pass that counts its file as stored
UploadFileFails_counted(r) ==
    /\ req[r].pc = "upFile"
    /\ LET b == req[r].batch[req[r].i]
           acc == req[r].acc + b.size
       IN /\ disk' = Unlink(disk, b.id)
          /\ IF req[r].i # Len(req[r].batch)
             THEN Goto(r, [req[r] EXCEPT !.i = @ + 1, !.acc = acc])
             ELSE IF acc > 0
                  THEN Goto(r, [req[r] EXCEPT !.pc = "upSaveUser", !.acc = acc])
                  ELSE Finish(r, req[r].user, "upload", 201, "none")
    /\ UNCHANGED <<Uploader, storageUsed, files, nextId, now, served, authVars, arrived>>

\* one pass of the per-file loop that throws (checksum, encrypt, write or
\* File.create): the catch unlinks the staged file and the loop goes on
UploadFileFails(r) ==
    /\ req[r].pc = "upFile"
    /\ LET b == req[r].batch[req[r].i]
       IN /\ disk' = Unlink(disk, b.id)
          /\ IF req[r].i # Len(req[r].batch)
             THEN Goto(r, [req[r] EXCEPT !.i = @ + 1])
             ELSE IF req[r].acc > 0
                  THEN Goto(r, [req[r] EXCEPT !.pc = "upSaveUser"])
                  ELSE Finish(r, req[r].user, "upload", 201, "none")
    /\ UNCHANGED <<Uploader, storageUsed, files, nextId, now, served, authVars, arrived>>

\* deleteFile with permanent=true whose fs.unlinkSync throws: the catch of
\* the handler answers 500 before the refund and the deleteOne
DeleteUnlinkFails(r, u, f) ==
    /\ req[r].pc = "idle"
    /\ Visible(f, TRUE) /\ files[f].user = u
    /\ disk[f] # "absent"
    /\ Finish(r, u, "delete", 500, "Internal")
    /\ UNCHANGED <<Uploader, storageUsed, files, disk, nextId, now, served, authVars>>

\* emptyTrash and bulkDelete: the await of the loop body rejects (deleteOne,
\* or save after softDelete); the catch logs it and the loop goes on
LoopStepFails(r) ==
    /\ req[r].pc \in {"trashFile", "bulkFile"}
    /\ IF req[r].i < Len(req[r].batch)
       THEN /\ LoopEnter(r, req[r], req[r].i + 1)
            /\ resp' = NoResp
       ELSE /\ UNCHANGED disk
            /\ IF req[r].perm /\ req[r].acc > 0
               THEN Goto(r, [req[r] EXCEPT !.pc = IF req[r].pc = "trashFile"
                                                  THEN "trashFindUser"
                                                  ELSE "bulkFindUser"])
               ELSE Finish(r, req[r].user, req[r].op, 200, "none")
    /\ UNCHANGED <<Uploader, storageUsed, files, nextId, now, served, authVars, arrived>>

-----------------------------------------------------------------------------
(* Share links and downloads *)

\* a value of the request body: absent, a JSON number, or the decimal string
\* of a number
Undefined == [kind |-> "undefined", n |-> 0]
Num(n) == [kind |-> "number", n |-> n]
Str(n) == [kind |-> "string", n |-> n]

\* if (v): a number other than 0 or a non-empty string
Truthy(v) == (v.kind = "number" /\ v.n # 0) \/ v.kind = "string"

parseInt(v) == v.n

\* the default life of a share link, in days (the clock ticks in days)
DefaultShareDays == 7

\* bcrypt.hash(password, 10) and bcrypt.compare(password, hash)
Hash(p) == "$2a$10$" \o p
Compare(p, h) == h = Hash(p)

\* the marks of a share field the request has not assigned
Unset == -2
UnsetPassword == "unset"

\* File.isShareValid() at time t
isShareValid(doc, t) ==
    IF doc.shareToken = 0 THEN FALSE
    ELSE IF doc.shareExpires # -1 /\ doc.shareExpires < t THEN FALSE
    ELSE IF doc.maxDownloads \notin {-1, 0} /\ doc.downloadCount >= doc.maxDownloads
         THEN FALSE
    ELSE TRUE

\* a download that finds the blob intact has nothing in its way
ReadBlob_unchecked(f) ==
    IF disk[f] = "absent" THEN [status |-> 404, error |-> "MissingBlob"]
    ELSE [status |-> 0, error |-> "none"]

\* the read of a stored blob: existsSync, readFileSync, decrypt, checksum.
\* 0 stands for bytes delivered
ReadBlob(f) ==
    IF disk[f] = "absent" THEN [status |-> 404, error |-> "MissingBlob"]
    ELSE IF disk[f] # "enc" THEN [status |-> 500, error |-> "IntegrityFailure"]
    ELSE [status |-> 0, error |-> "none"]

\* the target of a request that has not read the record yet
Target(f) == [id |-> f, size |-> 0, del |-> FALSE]

(* downloadFile *)

\* User.findById(req.user.id) resolves
DownloadFindUser(r, u, f) ==
    /\ req[r].pc = "idle"
    /\ Goto(r, [Idle EXCEPT !.pc = "dlFind", !.op = "download", !.user = u,
                            !.batch = <<Target(f)>>])
    /\ UNCHANGED <<Uploader, storageUsed, files, disk, nextId, now, served, authVars>>

\* File.findOne({_id, user}) resolves; the blob is read and checked and the
\* document's downloadCount raised
DownloadFind(r) ==
    /\ req[r].pc = "dlFind"
    /\ LET f == req[r].batch[1].id
           u == req[r].user
       IN IF ~(Visible(f, FALSE) /\ files[f].user = u)
          THEN Finish(r, u, "download", 404, "NotFound")
          ELSE IF ReadBlob(f).status # 0
          THEN Finish(r, u, "download", ReadBlob(f).status, ReadBlob(f).error)
          ELSE Goto(r, [req[r] EXCEPT !.pc = "dlSave",
                                      !.acc = files[f].downloadCount + 1])
    /\ UNCHANGED <<Uploader, storageUsed, files, disk, nextId, now, served, authVars, arrived>>

\* file.save() writes downloadCount; the bytes are sent
DownloadSave(r) ==
    /\ req[r].pc = "dlSave"
    /\ LET f == req[r].batch[1].id
       IN IF Exists(f)
          THEN /\ files' = [files EXCEPT ![f].downloadCount = req[r].acc]
               /\ Finish(r, req[r].user, "download", 200, "none")
          ELSE /\ UNCHANGED files
               /\ Finish(r, req[r].user, "download", 500, "Internal")
    /\ UNCHANGED <<Uploader, storageUsed, disk, nextId, now, served, authVars, arrived>>

(* shareFile *)

\* File.generateShareToken(expireTime): a token never issued before (the
\* number of the request that asks for it) and the expiry
generateShareToken(expireTime) ==
    [shareToken |-> arrived + 1, shareExpires |-> now + expireTime]

\* File.findOne({_id, user}) resolves; token, expiry, and the limit and the
\* password the body gives are set on the document
ShareFind(r, u, f, expiresIn, maxDownloads, password) ==
    /\ req[r].pc = "idle"
    /\ IF ~(Visible(f, FALSE) /\ files[f].user = u)
       THEN Finish(r, u, "share", 404, "NotFound")
       ELSE LET expireTime == IF Truthy(expiresIn) THEN parseInt(expiresIn)
                                                   ELSE DefaultShareDays
                t == generateShareToken(expireTime)
            IN Goto(r, [Idle EXCEPT
                    !.pc = "shareSave", !.op = "share", !.user = u,
                    !.batch = <<Doc(f)>>,
                    !.share = [shareToken |-> t.shareToken,
                               shareExpires |-> t.shareExpires,
                               maxDownloads |-> IF Truthy(maxDownloads)
                                                THEN parseInt(maxDownloads)
                                                ELSE Unset,
                               sharePassword |-> IF password # "none"
                                                 THEN Hash(password)
                                                 ELSE UnsetPassword]])
    /\ UNCHANGED <<Uploader, storageUsed, files, disk, nextId, now, served, authVars>>

\* file.save() writes the share fields the request assigned
SavedShare(rec, s) ==
    [rec EXCEPT !.shareToken = s.shareToken,
                !.shareExpires = s.shareExpires,
                !.maxDownloads = IF s.maxDownloads = Unset THEN @ ELSE s.maxDownloads,
                !.sharePassword = IF s.sharePassword = UnsetPassword THEN @
                                  ELSE s.sharePassword]

ShareSave(r) ==
    /\ req[r].pc = "shareSave"
    /\ LET f == req[r].batch[1].id
       IN IF Exists(f)
          THEN /\ files' = [files EXCEPT ![f] = SavedShare(@, req[r].share)]
               /\ served' = [served EXCEPT ![f] =
                                [limit |-> IF req[r].share.maxDownloads = Unset
                                           THEN -1 ELSE req[r].share.maxDownloads,
                                 count |-> 0]]
               /\ Finish(r, req[r].user, "share", 200, "none")
          ELSE /\ UNCHANGED <<Uploader, files, served>>
               /\ Finish(r, req[r].user, "share", 500, "Internal")
    /\ UNCHANGED <<Uploader, storageUsed, disk, nextId, now, arrived, authVars>>

(* downloadSharedFile *)

\* a lookup by token that the pre(/^find/) hook does not filter
ByToken_includingDeleted(token) == {f \in FileIds : Exists(f) /\ files[f].shareToken = token}

\* the record File.findOne({shareToken: token}) returns (the index is unique)
ByToken(token) == {f \in FileIds : Visible(f, FALSE) /\ files[f].shareToken = token}

\* a consume that checks the password before the validity of the share
ConsumeFind_passwordFirst(r, token, password) ==
    /\ req[r].pc = "idle"
    /\ IF ByToken(token) = {}
       THEN Finish(r, "anon", "consume", 404, "NotFound")
       ELSE LET f == CHOOSE g \in ByToken(token) : TRUE
                doc == files[f]
            IN IF doc.sharePassword # "none" /\ password = "none"
               THEN Finish(r, "anon", "consume", 401, "PasswordRequired")
               ELSE IF doc.sharePassword # "none" /\ ~Compare(password, doc.sharePassword)
               THEN Finish(r, "anon", "consume", 401, "AuthFailure")
               ELSE IF ~isShareValid(doc, now)
               THEN Finish(r, "anon", "consume", 410, "ShareExpired")
               ELSE Goto(r, [Idle EXCEPT !.pc = "consumeFindOwner", !.op = "consume",
                                         !.user = "anon", !.batch = <<Doc(f)>>,
                                         !.acc = doc.downloadCount])
    /\ UNCHANGED <<Uploader, storageUsed, files, disk, nextId, now, served, authVars>>

\* File.findOne({shareToken}) resolves; isShareValid() and the password check
ConsumeFind(r, token, password) ==
    /\ req[r].pc = "idle"
    /\ IF ByToken(token) = {}
       THEN Finish(r, "anon", "consume", 404, "NotFound")
       ELSE LET f == CHOOSE g \in ByToken(token) : TRUE
                doc == files[f]
            IN IF ~isShareValid(doc, now)
               THEN Finish(r, "anon", "consume", 410, "ShareExpired")
               ELSE IF doc.sharePassword # "none" /\ password = "none"
               THEN Finish(r, "anon", "consume", 401, "PasswordRequired")
               ELSE IF doc.sharePassword # "none" /\ ~Compare(password, doc.sharePassword)
               THEN Finish(r, "anon", "consume", 401, "AuthFailure")
               ELSE Goto(r, [Idle EXCEPT !.pc = "consumeFindOwner", !.op = "consume",
                                         !.user = "anon", !.batch = <<Doc(f)>>,
                                         !.acc = doc.downloadCount])
    /\ UNCHANGED <<Uploader, storageUsed, files, disk, nextId, now, served, authVars>>

\* User.findById(file.user) resolves; the blob is read and checked and the
\* document's downloadCount raised
ConsumeRead(r) ==
    /\ req[r].pc = "consumeFindOwner"
    /\ LET f == req[r].batch[1].id
       IN IF ReadBlob(f).status # 0
          THEN Finish(r, "anon", "consume", ReadBlob(f).status, ReadBlob(f).error)
          ELSE Goto(r, [req[r] EXCEPT !.pc = "consumeSave", !.acc = @ + 1])
    /\ UNCHANGED <<Uploader, storageUsed, files, disk, nextId, now, served, authVars, arrived>>

\* file.save() writes downloadCount; the bytes are sent
ConsumeSave(r) ==
    /\ req[r].pc = "consumeSave"
    /\ LET f == req[r].batch[1].id
       IN IF Exists(f)
          THEN /\ files' = [files EXCEPT ![f].downloadCount = req[r].acc]
               /\ served' = [served EXCEPT ![f].count = @ + 1]
               /\ Finish(r, "anon", "consume", 200, "none")
          ELSE /\ UNCHANGED <<Uploader, files, served>>
               /\ Finish(r, "anon", "consume", 500, "Internal")
    /\ UNCHANGED <<Uploader, storageUsed, disk, nextId, now, arrived, authVars>>

(* revokeShare *)

\* File.findOne({_id, user}) resolves
RevokeFind(r, u, f) ==
    /\ req[r].pc = "idle"
    /\ IF ~(Visible(f, FALSE) /\ files[f].user = u)
       THEN Finish(r, u, "revoke", 404, "NotFound")
       ELSE Goto(r, [Idle EXCEPT !.pc = "revokeSave", !.op = "revoke", !.user = u,
                                 !.batch = <<Doc(f)>>])
    /\ UNCHANGED <<Uploader, storageUsed, files, disk, nextId, now, served, authVars>>

\* a revoke whose save leaves the token on the record
RevokeSave_keepsToken(r) ==
    /\ req[r].pc = "revokeSave"
    /\ LET f == req[r].batch[1].id
       IN /\ files' = [files EXCEPT ![f] =
                    [@ EXCEPT !.shareExpires = -1, !.sharePassword = "none",
                              !.maxDownloads = -1]]
          /\ Finish(r, req[r].user, "revoke", 200, "none")
    /\ UNCHANGED <<Uploader, storageUsed, disk, nextId, now, served, authVars, arrived>>

\* file.save() unsets shareToken, shareExpires, sharePassword and maxDownloads
RevokeSave(r) ==
    /\ req[r].pc = "revokeSave"
    /\ LET f == req[r].batch[1].id
       IN IF Exists(f)
          THEN /\ files' = [files EXCEPT ![f] =
                    [@ EXCEPT !.shareToken = 0, !.shareExpires = -1,
                              !.sharePassword = "none", !.maxDownloads = -1]]
               /\ Finish(r, req[r].user, "revoke", 200, "none")
          ELSE /\ UNCHANGED files
               /\ Finish(r, req[r].user, "revoke", 500, "Internal")
    /\ UNCHANGED <<Uploader, storageUsed, disk, nextId, now, served, authVars, arrived>>

\* a day passes
Tick ==
    /\ now < MaxTime
    /\ now' = now + 1
    /\ resp' = NoResp
    /\ UNCHANGED <<Uploader, storageUsed, files, disk, nextId, req, arrived, served, authVars>>

-----------------------------------------------------------------------------
(* Login, account lock and password change.  Here a tick of the clock is   *)
(* the second a token's iat counts; the two hours of a lock are scaled.     *)

\* failed logins that lock the account
MaxAttempts == 5
\* the length of a lock (two hours, scaled)
LockTime == 2
\* passwordChangedAt is set one second before the save
ChangedAtSkew == 1

\* bcrypt.compare(candidatePassword, this.password)
comparePassword(doc, candidate) == doc.password = HashPassword(candidate)

\* a lock check that never finds the account locked
isLocked_never(doc, t) == FALSE

\* the virtual isLocked of a user document at time t
isLocked(doc, t) == doc.lockUntil # NoDate /\ doc.lockUntil > t

\* an incrementLoginAttempts that locks only after one more failure
incrementLoginAttempts_late(doc, t) ==
    IF doc.lockUntil # NoDate /\ doc.lockUntil < t
    THEN [kind |-> "restart", lockUntil |-> NoDate]
    ELSE [kind |-> "inc",
          lockUntil |-> IF doc.loginAttempts >= MaxAttempts /\ ~isLocked(doc, t)
                        THEN t + LockTime ELSE NoDate]

\* the updateOne that incrementLoginAttempts builds from the document it holds
\* at time t: restart the count after an expired lock, or $inc it and lock
incrementLoginAttempts(doc, t) ==
    IF doc.lockUntil # NoDate /\ doc.lockUntil < t
    THEN [kind |-> "restart", lockUntil |-> NoDate]
    ELSE [kind |-> "inc",
          lockUntil |-> IF doc.loginAttempts + 1 >= MaxAttempts /\ ~isLocked(doc, t)
                        THEN t + LockTime ELSE NoDate]

\* the stored document after the updateOne upd
Updated(acct, upd) ==
    IF upd.kind = "restart"
    THEN [acct EXCEPT !.loginAttempts = 1, !.lockUntil = NoDate]
    ELSE [acct EXCEPT !.loginAttempts = @ + 1,
                      !.lockUntil = IF upd.lockUntil = NoDate THEN @ ELSE upd.lockUntil]

\* resetLoginAttempts: $set loginAttempts 0, $unset lockUntil
resetLoginAttempts(acct) == [acct EXCEPT !.loginAttempts = 0, !.lockUntil = NoDate]

\* generateAuthToken: a token signed now for user u
generateAuthToken(u) == [user |-> u, iat |-> now]

\* changedPasswordAfter(JWTTimestamp)
changedPasswordAfter(doc, iat) ==
    IF doc.passwordChangedAt # NoDate THEN iat < doc.passwordChangedAt ELSE FALSE

(* login *)

\* User.findOne({email}) resolves; the lock check
LoginFind(r, u, password) ==
    /\ req[r].pc = "idle"
    /\ IF isLocked(accounts[u], now)
       THEN Finish(r, u, "login", 423, "AccountLocked")
       ELSE Goto(r, [Idle EXCEPT !.pc = "loginCompare", !.op = "login", !.user = u,
                                 !.doc = accounts[u], !.cand = password])
    /\ UNCHANGED <<Uploader, storageUsed, files, disk, nextId, now, served, authVars>>

\* comparePassword resolves; on a mismatch incrementLoginAttempts builds its
\* update, on a match resetLoginAttempts is called
LoginCompare(r) ==
    /\ req[r].pc = "loginCompare"
    /\ IF comparePassword(req[r].doc, req[r].cand)
       THEN Goto(r, [req[r] EXCEPT !.pc = "loginReset"])
       ELSE Goto(r, [req[r] EXCEPT !.pc = "loginIncrement", !.at = now,
                                   !.upd = incrementLoginAttempts(req[r].doc, now)])
    /\ UNCHANGED <<Uploader, storageUsed, files, disk, nextId, now, served, arrived, authVars>>

\* the updateOne of incrementLoginAttempts takes effect; 401
LoginIncrement(r) ==
    /\ req[r].pc = "loginIncrement"
    /\ LET u == req[r].user
       IN /\ accounts' = [accounts EXCEPT ![u] = Updated(@, req[r].upd)]
          /\ fails' = [fails EXCEPT ![u] =
                          IF accounts[u].lockUntil = NoDate THEN @ + 1 ELSE 1]
          /\ Finish(r, u, "login", 401, "AuthFailure")
    /\ UNCHANGED <<Uploader, storageUsed, files, disk, nextId, now, served, arrived, jwts,
                   changed>>

\* the updateOne of resetLoginAttempts takes effect; the token is signed; 200
LoginReset(r) ==
    /\ req[r].pc = "loginReset"
    /\ LET u == req[r].user
       IN /\ accounts' = [accounts EXCEPT ![u] = resetLoginAttempts(@)]
          /\ jwts' = jwts \cup {generateAuthToken(u)}
          /\ fails' = [fails EXCEPT ![u] = 0]
          /\ Finish(r, u, "login", 200, "none")
    /\ UNCHANGED <<Uploader, storageUsed, files, disk, nextId, now, served, arrived, changed>>

(* updatePassword *)

\* User.findById resolves and the current password is compared
UpdatePasswordFind(r, u, currentPassword, newPassword) ==
    /\ req[r].pc = "idle"
    /\ IF ~comparePassword(accounts[u], currentPassword)
       THEN Finish(r, u, "updatePassword", 401, "AuthFailure")
       ELSE Goto(r, [Idle EXCEPT !.pc = "pwHash", !.op = "updatePassword",
                                 !.user = u, !.doc = accounts[u],
                                 !.cand = newPassword])
    /\ UNCHANGED <<Uploader, storageUsed, files, disk, nextId, now, served, authVars>>

\* the pre-save hook: the password is hashed and passwordChangedAt set
UpdatePasswordHash(r) ==
    /\ req[r].pc = "pwHash"
    /\ Goto(r, [req[r] EXCEPT
                  !.pc = "pwSave",
                  !.doc = [@ EXCEPT !.password = HashPassword(req[r].cand),
                                    !.passwordChangedAt = now - ChangedAtSkew]])
    /\ UNCHANGED <<Uploader, storageUsed, files, disk, nextId, now, served, arrived, authVars>>

\* user.save() writes password and passwordChangedAt; a new token is signed
UpdatePasswordSave(r) ==
    /\ req[r].pc = "pwSave"
    /\ LET u == req[r].user
       IN /\ accounts' = [accounts EXCEPT
                             ![u].password = req[r].doc.password,
                             ![u].passwordChangedAt = req[r].doc.passwordChangedAt]
          /\ jwts' = jwts \cup {generateAuthToken(u)}
          /\ changed' = [changed EXCEPT ![u] = now]
          /\ Finish(r, u, "updatePassword", 200, "none")
    /\ UNCHANGED <<Uploader, storageUsed, files, disk, nextId, now, served, arrived, fails>>

(* protect *)

\* a request on a protected route presents the bearer token tok: the token is
\* verified, User.findById resolves, changedPasswordAfter decides
Protect(r, tok) ==
    /\ req[r].pc = "idle"
    /\ tok \in jwts
    /\ IF changedPasswordAfter(accounts[tok.user], tok.iat)
       THEN Finish(r, tok.user, "protect", 401, "AuthFailure")
       ELSE Finish(r, tok.user, "protect", 200, "none")
    /\ UNCHANGED <<Uploader, storageUsed, files, disk, nextId, now, served, authVars>>

-----------------------------------------------------------------------------
(* Listings, getFile, previewFile, updateFile, moveFiles *)

DefaultPage == 1
DefaultLimit == 20

\* File.find(query) without the query middleware of the File model
Find_unhooked(u, includeDeleted, onlyDeleted, folder) ==
    {f \in FileIds : /\ Exists(f) /\ files[f].user = u
                     /\ onlyDeleted => files[f].isDeleted
                     /\ folder # "" => files[f].folder = folder}

\* File.find(query) for the queries of getFiles and getTrash, with the
\* pre(/^find/) middleware: {user, [isDeleted: true], [folder]} and, unless
\* the query sets includeDeleted, isDeleted: {$ne: true}
Find(u, includeDeleted, onlyDeleted, folder) ==
    {f \in FileIds : /\ Exists(f) /\ files[f].user = u
                     /\ onlyDeleted => files[f].isDeleted
                     /\ folder # "" => files[f].folder = folder
                     /\ includeDeleted \/ ~files[f].isDeleted}

RECURSIVE Sorted(_, _)
\* .sort({key: -1}): the ids of S by descending key, the younger record first
\* among equal keys
Sorted(S, key) ==
    IF S = {} THEN <<>>
    ELSE LET top == CHOOSE f \in S :
                       \A g \in S : key[f] > key[g] \/ (key[f] = key[g] /\ f >= g)
         IN <<top>> \o Sorted(S \ {top}, key)

\* .skip((page - 1) * limit).limit(limit), page and limit through
\* parseInt(...) || default
Paged(seq, page, limit) ==
    LET p == IF Truthy(page) THEN parseInt(page) ELSE DefaultPage
        l == IF Truthy(limit) THEN parseInt(limit) ELSE DefaultLimit
        skip == (p - 1) * l
    IN IF skip >= Len(seq) THEN <<>>
       ELSE SubSeq(seq, skip + 1, IF skip + l <= Len(seq) THEN skip + l ELSE Len(seq))

\* a 200 that carries the ids of the records returned
Listing(u, op, ids) == [Response(u, op, 200, "none") EXCEPT !.body = ids]

\* File.countDocuments(query): the number of records that match the query as
\* written; the pre(/^find/) hook is not run for it
countDocuments(u, onlyDeleted, folder) == Cardinality(Find(u, TRUE, onlyDeleted, folder))

\* getFiles: File.find({user, folder?}) sorted by createdAt descending (ids
\* are handed out in the order of creation), pagination.total from
\* File.countDocuments of the same query
GetFiles(r, u, page, limit, folder) ==
    /\ req[r].pc = "idle"
    /\ req' = [req EXCEPT ![r] = Idle]
    /\ resp' = [Listing(u, "getFiles",
                   Paged(Sorted(Find(u, FALSE, FALSE, folder), [f \in FileIds |-> f]),
                         page, limit))
                EXCEPT !.total = countDocuments(u, FALSE, folder)]
    /\ UNCHANGED <<Uploader, storageUsed, files, disk, nextId, now, served, authVars>>

\* getTrash: File.find({user, isDeleted: true}) with includeDeleted, sorted
\* by deletedAt descending
GetTrash(r, u, page, limit) ==
    /\ req[r].pc = "idle"
    /\ req' = [req EXCEPT ![r] = Idle]
    /\ resp' = [Listing(u, "getTrash",
                   Paged(Sorted(Find(u, TRUE, TRUE, ""),
                                [f \in FileIds |-> IF Exists(f) THEN files[f].deletedAt
                                                                ELSE -1]),
                         page, limit))
                EXCEPT !.total = countDocuments(u, TRUE, "")]
    /\ UNCHANGED <<Uploader, storageUsed, files, disk, nextId, now, served, authVars>>

\* getFolders: File.distinct('folder', {user}), which the pre(/^find/) hook
\* does not filter, sorted; the counts from File.aggregate with
\* $match {user, isDeleted: {$ne: true}} grouped by folder, as pairs
\* <<folder, count>>
GetFolders(r, u) ==
    LET folders == {files[f].folder : f \in Find(u, TRUE, FALSE, "")}
        Has(d) == d \in folders
        folderCounts == {<<files[f].folder,
                           Cardinality({g \in Find(u, FALSE, FALSE, "") :
                                           files[g].folder = files[f].folder})>> :
                            f \in Find(u, FALSE, FALSE, "")}
    IN /\ req[r].pc = "idle"
       /\ req' = [req EXCEPT ![r] = Idle]
       /\ resp' = [Response(u, "getFolders", 200, "none")
                   EXCEPT !.body = SelectSeq(<<"/", "/docs">>, Has),
                          !.folderCounts = folderCounts]
       /\ UNCHANGED <<Uploader, storageUsed, files, disk, nextId, now, served, authVars>>

\* getFile: File.findOne({_id, user})
GetFile(r, u, f) ==
    /\ req[r].pc = "idle"
    /\ req' = [req EXCEPT ![r] = Idle]
    /\ resp' = IF ~(Visible(f, FALSE) /\ files[f].user = u)
               THEN Response(u, "getFile", 404, "NotFound")
               ELSE Listing(u, "getFile", <<f>>)
    /\ UNCHANGED <<Uploader, storageUsed, files, disk, nextId, now, served, authVars>>

\* previewFile: User.findById(req.user.id) resolves
PreviewFindUser(r, u, f) ==
    /\ req[r].pc = "idle"
    /\ Goto(r, [Idle EXCEPT !.pc = "pvFind", !.op = "preview", !.user = u,
                            !.batch = <<Target(f)>>])
    /\ UNCHANGED <<Uploader, storageUsed, files, disk, nextId, now, served, authVars>>

\* the read of a blob for a preview: existsSync, readFileSync, decrypt (no
\* checksum is compared)
DecryptBlob(f) ==
    IF disk[f] = "absent" THEN [status |-> 404, error |-> "MissingBlob"]
    ELSE IF disk[f] \notin {"enc", "replaced"}
         THEN [status |-> 500, error |-> "IntegrityFailure"]
    ELSE [status |-> 0, error |-> "none"]

\* File.findOne({_id, user}) resolves; image: whether file.mimeType starts
\* with image/ (the media type is not kept in the model's records, so either
\* answer is possible for every file)
PreviewFind(r, image) ==
    /\ req[r].pc = "pvFind"
    /\ LET f == req[r].batch[1].id
           u == req[r].user
       IN IF ~(Visible(f, FALSE) /\ files[f].user = u)
          THEN Finish(r, u, "preview", 404, "NotFound")
          ELSE IF ~image
          THEN Finish(r, u, "preview", 400, "NotImage")
          ELSE IF DecryptBlob(f).status # 0
          THEN Finish(r, u, "preview", DecryptBlob(f).status, DecryptBlob(f).error)
          ELSE Goto(r, [req[r] EXCEPT !.pc = "pvSave"])
    /\ UNCHANGED <<Uploader, storageUsed, files, disk, nextId, now, served, authVars, arrived>>

\* file.save() after logAccess('view'): none of the modelled fields is
\* modified; the bytes are sent
PreviewSave(r) ==
    /\ req[r].pc = "pvSave"
    /\ IF Exists(req[r].batch[1].id)
       THEN Finish(r, req[r].user, "preview", 200, "none")
       ELSE Finish(r, req[r].user, "preview", 500, "Internal")
    /\ UNCHANGED <<Uploader, storageUsed, files, disk, nextId, now, served, authVars, arrived>>

\* folder.startsWith('/') ? folder : '/' + folder
FolderPath(folder) == IF folder \in {"/", "/docs"} THEN folder ELSE "/" \o folder

\* updateFile: File.findOne({_id, user}) resolves and the fields present in
\* the body are set on the document ("unset": absent from the body)
UpdateFind(r, u, f, originalName, folder) ==
    /\ req[r].pc = "idle"
    /\ IF ~(Visible(f, FALSE) /\ files[f].user = u)
       THEN Finish(r, u, "update", 404, "NotFound")
       ELSE Goto(r, [Idle EXCEPT
                       !.pc = "updSave", !.op = "update", !.user = u,
                       !.batch = <<Doc(f)>>,
                       !.set = [originalName |-> originalName,
                                folder |-> IF folder = "unset" THEN "unset"
                                           ELSE FolderPath(folder)]])
    /\ UNCHANGED <<Uploader, storageUsed, files, disk, nextId, now, served, authVars>>

\* file.save() writes the fields the request has set
UpdateSave(r) ==
    /\ req[r].pc = "updSave"
    /\ LET f == req[r].batch[1].id
           s == req[r].set
       IN IF Exists(f)
          THEN /\ files' = [files EXCEPT
                      ![f].originalName = IF s.originalName = "unset" THEN @
                                          ELSE s.originalName,
                      ![f].folder = IF s.folder = "unset" THEN @ ELSE s.folder]
               /\ Finish(r, req[r].user, "update", 200, "none")
          ELSE /\ UNCHANGED files
               /\ Finish(r, req[r].user, "update", 500, "Internal")
    /\ UNCHANGED <<Uploader, storageUsed, disk, nextId, now, served, authVars, arrived>>

\* a moveFiles whose updateMany does not filter on the caller
MoveFiles_anyOwner(r, u, fileIds, targetFolder) ==
    /\ req[r].pc = "idle"
    /\ IF targetFolder = "unset"
       THEN /\ UNCHANGED files
            /\ Finish(r, u, "move", 400, "BadRequest")
       ELSE /\ files' = [f \in FileIds |->
                          IF f \in fileIds /\ Exists(f)
                          THEN [files[f] EXCEPT !.folder = FolderPath(targetFolder)]
                          ELSE files[f]]
            /\ Finish(r, u, "move", 200, "none")
    /\ UNCHANGED <<Uploader, storageUsed, disk, nextId, now, served, authVars>>

\* moveFiles: File.updateMany({_id: {$in: fileIds}, user}, {$set: {folder}});
\* updateMany is not a find, the pre(/^find/) middleware does not run
MoveFiles(r, u, fileIds, targetFolder) ==
    /\ req[r].pc = "idle"
    /\ IF targetFolder = "unset"
       THEN /\ UNCHANGED files
            /\ Finish(r, u, "move", 400, "BadRequest")
       ELSE /\ files' = [f \in FileIds |->
                          IF f \in fileIds /\ Exists(f) /\ files[f].user = u
                          THEN [files[f] EXCEPT !.folder = FolderPath(targetFolder)]
                          ELSE files[f]]
            /\ Finish(r, u, "move", 200, "none")
    /\ UNCHANGED <<Uploader, storageUsed, disk, nextId, now, served, authVars>>

-----------------------------------------------------------------------------
Batches == UNION {[1..n -> Sizes] : n \in BatchLens}
IdSets == (SUBSET FileIds) \ {{}}

\* the steps every request takes after its first one
Continue(r) ==
    \/ UploadCheckQuota(r)
    \/ UploadFile(r)
    \/ UploadSaveUser(r)
    \/ DeleteFindUser(r)
    \/ DeleteSaveUser(r)
    \/ DeleteRecord(r)
    \/ DeleteSoftSave(r)
    \/ RestoreSave(r)
    \/ EmptyTrashFile(r)
    \/ EmptyTrashFindUser(r)
    \/ EmptyTrashSaveUser(r)
    \/ BulkDeleteFile(r)
    \/ BulkDeleteFindUser(r)
    \/ BulkDeleteSaveUser(r)

\* a request arrives
Arrive(r) ==
    \/ \E u \in Users, sizes \in Batches : StageUpload(r, u, sizes)
    \/ \E u \in Users, f \in FileIds, p \in BOOLEAN : DeleteFind(r, u, f, p)
    \/ \E u \in Users, f \in FileIds : RestoreFind(r, u, f)
    \/ \E u \in Users : EmptyTrashFind(r, u)
    \/ \E u \in Users, S \in IdSets, p \in BOOLEAN : BulkDeleteFind(r, u, S, p)

\* an arriving request takes the lowest free slot (slots are interchangeable)
FreeSlot(r) == req[r].pc = "idle" /\ \A q \in Reqs : q < r => req[q].pc # "idle"

\* Two requests at a time, interleaved at their awaits
Next ==
    \E r \in {1, 2} :
        \/ FreeSlot(r) /\ arrived < MaxRequests /\ Arrive(r) /\ arrived' = arrived + 1
        \/ Continue(r)

Spec == Init /\ [][Next]_vars

\* the blob of a record is removed from the disk behind the server's back
\* (the case the fs.existsSync guards of the handlers are written for)
BlobLost(f) ==
    /\ Exists(f)
    /\ disk[f] = "enc"
    /\ disk' = [disk EXCEPT ![f] = "absent"]
    /\ resp' = NoResp
    /\ UNCHANGED <<Uploader, storageUsed, files, nextId, req, now, served, authVars, arrived>>

\* One request at a time
NextSeq ==
    \/ arrived < MaxRequests /\ Arrive(1) /\ arrived' = arrived + 1
    \/ Continue(1)
    \/ \E f \in FileIds : req[1].pc = "idle" /\ BlobLost(f)

SpecSeq == Init /\ [][NextSeq]_vars

\* Three upload requests at a time
NextUploads ==
    \E r \in Reqs :
        \/ /\ FreeSlot(r)
           /\ \E u \in Users, sizes \in Batches : StageUpload(r, u, sizes)
           /\ UNCHANGED arrived
        \/ UploadCheckQuota(r)
        \/ UploadFile(r)
        \/ UploadSaveUser(r)

SpecUploads == Init /\ [][NextUploads]_vars

\* the request bodies of shareFile
ExpiresIn == {Undefined, Num(1)}
MaxDownloads == {Undefined, Num(0), Str(0), Num(1), Num(2)}
Passwords == {"none", "pw"}
\* the tokens and passwords an anonymous caller presents
Tokens == 1..(MaxRequests + 1)
Guesses == {"none", "pw", "bad"}

ContinueShare(r) ==
    \/ UploadCheckQuota(r)
    \/ UploadFile(r)
    \/ UploadSaveUser(r)
    \/ DownloadFind(r)
    \/ DownloadSave(r)
    \/ ShareSave(r)
    \/ ConsumeRead(r)
    \/ ConsumeSave(r)
    \/ RevokeSave(r)

ArriveShare(r) ==
    \/ StageUpload(r, "alice", <<1>>)
    \/ \E u \in Users, f \in FileIds : DownloadFindUser(r, u, f)
    \/ \E u \in Users, f \in FileIds, e \in ExpiresIn, m \in MaxDownloads,
          p \in Passwords : ShareFind(r, u, f, e, m, p)
    \/ \E t \in Tokens, p \in Guesses : ConsumeFind(r, t, p)
    \/ \E u \in Users, f \in FileIds : RevokeFind(r, u, f)

\* One request at a time on files and their share links, while days pass
NextShare ==
    \/ arrived < MaxRequests + 1 /\ ArriveShare(1) /\ arrived' = arrived + 1
    \/ ContinueShare(1)
    \/ req[1].pc = "idle" /\ Tick

SpecShare == Init /\ [][NextShare]_vars

\* One upload and one share of the file with a limit, each running alone, and
\* then consumes of its link, two at a time, interleaved at their awaits
SpecConsume ==
    Init /\ [][\E r \in {1, 2} :
                 \/ /\ FreeSlot(r) /\ arrived < MaxRequests + 2 /\ arrived' = arrived + 1
                    /\ \/ nextId = 0 /\ StageUpload(r, "alice", <<1>>)
                       \/ \E f \in FileIds, m \in {Num(1), Num(2)} :
                             /\ Exists(f) /\ files[f].shareToken = 0
                             /\ \A q \in Reqs : req[q].pc = "idle"
                             /\ ShareFind(r, "alice", f, Undefined, m, "none")
                       \/ \E t \in Tokens : ConsumeFind(r, t, "none")
                 \/ UploadCheckQuota(r) \/ UploadFile(r) \/ UploadSaveUser(r)
                 \/ ShareSave(r)
                 \/ ConsumeRead(r) \/ ConsumeSave(r)]_vars

\* the accounts, passwords and tokens of the login requests
\* the ways the stored bytes of a blob can stop matching its record: "altered"
\* no longer authenticates under the owner's key (decrypt throws), "replaced"
\* authenticates but its plaintext has another SHA-256 than file.checksum
Damaged == {"altered", "replaced"}

\* the bytes of a stored blob are changed behind the server's back
BlobDamaged(f, how) ==
    /\ Exists(f)
    /\ disk[f] = "enc"
    /\ disk' = [disk EXCEPT ![f] = how]
    /\ resp' = NoResp
    /\ UNCHANGED <<Uploader, storageUsed, files, nextId, req, now, served, authVars, arrived>>

ArriveIntegrity(r) ==
    \/ StageUpload(r, "alice", <<1>>)
    \/ \E f \in FileIds : DownloadFindUser(r, "alice", f)
    \/ \E f \in FileIds, m \in {Undefined, Num(1)} :
          ShareFind(r, "alice", f, Undefined, m, "none")
    \/ \E t \in Tokens : ConsumeFind(r, t, "none")
    \/ \E f \in FileIds : RevokeFind(r, "alice", f)
    \/ \E f \in FileIds : PreviewFindUser(r, "alice", f)

\* One request at a time on files whose blobs may be damaged or lost at any
\* moment
NextIntegrity ==
    \/ arrived < MaxRequests + 1 /\ ArriveIntegrity(1) /\ arrived' = arrived + 1
    \/ ContinueShare(1)
    \/ \E image \in BOOLEAN : PreviewFind(1, image)
    \/ PreviewSave(1)
    \/ \E f \in FileIds, how \in Damaged : BlobDamaged(f, how)
    \/ \E f \in FileIds : BlobLost(f)

SpecIntegrity == Init /\ [][NextIntegrity]_vars

AuthUsers == {"alice"}
Candidates == {"pw", "pw2"}
Jwts == [user : AuthUsers, iat : 0..MaxTime]

ContinueAuth(r) ==
    \/ LoginCompare(r)
    \/ LoginIncrement(r)
    \/ LoginReset(r)
    \/ UpdatePasswordHash(r)
    \/ UpdatePasswordSave(r)

ArriveAuth(r) ==
    \/ \E u \in AuthUsers, p \in Candidates : LoginFind(r, u, p)
    \/ \E u \in AuthUsers, c \in Candidates, n \in Candidates :
          UpdatePasswordFind(r, u, c, n)
    \/ \E tok \in Jwts : Protect(r, tok)

\* One login, password change or protected request at a time, while the clock
\* runs
NextAuth ==
    \/ ArriveAuth(1) /\ UNCHANGED arrived
    \/ ContinueAuth(1)
    \/ Tick

SpecAuth == Init /\ [][NextAuth]_vars

\* Two logins at a time on one account, interleaved at their awaits, while
\* the clock runs
SpecLogins ==
    Init /\ [][\E r \in {1, 2} :
                 \/ /\ FreeSlot(r)
                    /\ \E p \in Candidates : LoginFind(r, "alice", p)
                    /\ UNCHANGED arrived
                 \/ LoginCompare(r)
                 \/ LoginIncrement(r)
                 \/ LoginReset(r)
                 \/ Tick]_vars

ContinueOwner(r) ==
    \/ Continue(r)
    \/ DownloadFind(r)
    \/ DownloadSave(r)
    \/ \E image \in BOOLEAN : PreviewFind(r, image)
    \/ PreviewSave(r)
    \/ UpdateSave(r)
    \/ ShareSave(r)
    \/ RevokeSave(r)

ArriveOwner(r) ==
    \/ \E u \in Users, sizes \in {<<1>>, <<0, 0>>} : StageUpload(r, u, sizes)
    \/ \E u \in Users, f \in FileIds, p \in BOOLEAN : DeleteFind(r, u, f, p)
    \/ \E u \in Users, f \in FileIds : RestoreFind(r, u, f)
    \/ \E u \in Users : EmptyTrashFind(r, u)
    \/ \E u \in Users, S \in IdSets, p \in BOOLEAN : BulkDeleteFind(r, u, S, p)
    \/ \E u \in Users, p \in {Undefined, Num(2)}, l \in {Undefined, Num(1)},
          d \in {"", "/docs"} :
          GetFiles(r, u, p, l, d)
    \/ \E u \in Users, p \in {Undefined, Num(2)}, l \in {Undefined, Num(1)} :
          GetTrash(r, u, p, l)
    \/ \E u \in Users : GetFolders(r, u)
    \/ \E u \in Users, f \in FileIds : GetFile(r, u, f)
    \/ \E u \in Users, f \in FileIds : DownloadFindUser(r, u, f)
    \/ \E u \in Users, f \in FileIds : PreviewFindUser(r, u, f)
    \/ \E u \in Users, f \in FileIds, n \in {"unset", "n2"},
          d \in {"unset", "docs", "/docs"} :
          UpdateFind(r, u, f, n, d)
    \/ \E u \in Users, f \in FileIds : ShareFind(r, u, f, Undefined, Undefined, "none")
    \/ \E u \in Users, f \in FileIds : RevokeFind(r, u, f)
    \/ \E u \in Users, S \in IdSets, d \in {"unset", "docs", "/docs"} :
          MoveFiles(r, u, S, d)

\* One request at a time of two users on their files.  The clock stands still:
\* it decides nothing on these routes but the order of the trash listing
NextOwner ==
    \/ arrived < MaxRequests /\ ArriveOwner(1) /\ arrived' = arrived + 1
    \/ ContinueOwner(1)

SpecOwner == Init /\ [][NextOwner]_vars

\* One request at a time of one user on her file and its trash, while the
\* clock runs
NextTrash ==
    \/ /\ arrived < MaxRequests + 1 /\ arrived' = arrived + 1
       /\ \/ StageUpload(1, "alice", <<1>>)
          \/ \E f \in FileIds, p \in BOOLEAN : DeleteFind(1, "alice", f, p)
          \/ \E f \in FileIds : RestoreFind(1, "alice", f)
    \/ UploadCheckQuota(1) \/ UploadFile(1) \/ UploadSaveUser(1)
    \/ DeleteFindUser(1) \/ DeleteSaveUser(1) \/ DeleteRecord(1)
    \/ DeleteSoftSave(1) \/ RestoreSave(1)
    \/ req[1].pc = "idle" /\ Tick

SpecTrash == Init /\ [][NextTrash]_vars

\* One request at a time of one user, where database and filesystem calls may
\* fail
NextFaults ==
    \/ /\ arrived < MaxRequests /\ arrived' = arrived + 1
       /\ \/ \E sizes \in Batches : StageUpload(1, "alice", sizes)
          \/ \E f \in FileIds, p \in BOOLEAN : DeleteFind(1, "alice", f, p)
          \/ \E f \in FileIds : DeleteUnlinkFails(1, "alice", f)
          \/ \E f \in FileIds : RestoreFind(1, "alice", f)
          \/ EmptyTrashFind(1, "alice")
          \/ \E S \in IdSets, p \in BOOLEAN : BulkDeleteFind(1, "alice", S, p)
    \/ Continue(1)
    \/ \E how \in {"missing", "error"} : UploadFindUserFails(1, how)
    \/ UploadFileFails(1)
    \/ LoopStepFails(1)

SpecFaults == Init /\ [][NextFaults]_vars

------------------------------------------------------------------------------
(* The bytes of an upload and of its download.  In this view disk holds the *)
(* bytes of each blob, and the record the size and checksum fields that     *)
(* File.create stores.                                                      *)

MaxLen == 3
saltLength == 64
ivLength == 16
tagLength == 16

\* User.encryptionKey, one key per user
encryptionKey(u) == IF u = "alice" THEN 0 ELSE 1

\* crypto.createHash('sha256').update(data).digest('hex'): no two of the
\* buffers of the model have the same digest
hash(data) == <<"sha256", data>>

\* pbkdf2Sync(password, salt, ...): one key per password and salt
deriveKey(password, salt) == (password + salt[1]) % 2

\* cipher.getAuthTag(): the GCM tag of a ciphertext under key and iv
getAuthTag(key, iv, encrypted) ==
    [i \in 1..tagLength |->
        (key + iv[1] + Len(encrypted)
             + SumOver(DOMAIN encrypted, [k \in DOMAIN encrypted |-> encrypted[k]])) % 2]

\* a container that leaves the tag out
encrypt_noTag(data, userKey, salt, iv) ==
    LET key == deriveKey(userKey, salt)
    IN [success |-> TRUE,
        data |-> salt \o iv \o [i \in 1..Len(data) |-> (data[i] + key + iv[1] + i) % 2]]

\* EncryptionService.encrypt with the salt and the iv that generateSalt and
\* generateIV drew: aes-256-gcm is a stream of key bytes added to the data;
\* the container is salt + iv + authTag + encrypted data
encrypt(data, userKey, salt, iv) ==
    LET key == deriveKey(userKey, salt)
        encrypted == [i \in 1..Len(data) |-> (data[i] + key + iv[1] + i) % 2]
        authTag == getAuthTag(key, iv, encrypted)
    IN [success |-> TRUE, data |-> salt \o iv \o authTag \o encrypted]

\* a decrypt that takes the salt for 32 bytes long and slices everything after
\* it 32 bytes early
decrypt_shifted(encryptedData, userKey) ==
    LET short == saltLength \div 2
        slice(a, b) == SubSeq(encryptedData, Max(1, a + 1),
                              IF b <= Len(encryptedData) THEN b ELSE Len(encryptedData))
        salt == slice(0, short)
        iv == slice(short, short + ivLength)
        authTag == slice(short + ivLength, short + ivLength + tagLength)
        encrypted == slice(short + ivLength + tagLength, Len(encryptedData))
        key == deriveKey(userKey, salt)
    IN IF Len(encryptedData) < short + ivLength + tagLength
          \/ authTag # getAuthTag(key, iv, encrypted)
       THEN [success |-> FALSE, data |-> <<>>]
       ELSE [success |-> TRUE,
             data |-> [i \in 1..Len(encrypted) |-> (encrypted[i] + key + iv[1] + i) % 2]]

\* EncryptionService.decrypt: slices the container at the fixed lengths;
\* decipher.final() throws when the tag does not match
decrypt(encryptedData, userKey) ==
    LET slice(a, b) == SubSeq(encryptedData, Max(1, a + 1),
                              IF b <= Len(encryptedData) THEN b ELSE Len(encryptedData))
        salt == slice(0, saltLength)
        iv == slice(saltLength, saltLength + ivLength)
        authTag == slice(saltLength + ivLength, saltLength + ivLength + tagLength)
        encrypted == slice(saltLength + ivLength + tagLength, Len(encryptedData))
        key == deriveKey(userKey, salt)
    IN IF Len(encryptedData) < saltLength + ivLength + tagLength
          \/ authTag # getAuthTag(key, iv, encrypted)
       THEN [success |-> FALSE, data |-> <<>>]
       ELSE [success |-> TRUE,
             data |-> [i \in 1..Len(encrypted) |-> (encrypted[i] + key + iv[1] + i) % 2]]

\* multer's disk storage has written the uploaded bytes under a fresh name;
\* file.size is their number
StageBytes(r, u, data) ==
    /\ req[r].pc = "idle"
    /\ nextId < MaxFiles
    /\ req' = [req EXCEPT ![r] = [Idle EXCEPT !.pc = "upBytes", !.op = "upload",
                                              !.user = u, !.batch = <<Len(data)>>]]
    /\ disk' = [disk EXCEPT ![nextId + 1] = data]
    /\ nextId' = nextId + 1
    /\ resp' = NoResp
    /\ UNCHANGED <<Uploader, storageUsed, files, now, served, authVars>>

\* uploadFiles for one file that is within the quota: the checksum of the
\* staged file, the container written over it, the checksum of the written
\* file, File.create, updateStorageUsed
UploadBytes(r, salt, iv) ==
    LET f == nextId
        originalChecksum == hash(disk[f])
        encrypted == encrypt(disk[f], encryptionKey(req[r].user), salt, iv)
    IN /\ req[r].pc = "upBytes"
       /\ disk' = [disk EXCEPT ![f] = encrypted.data]
       /\ files' = [files EXCEPT ![f] =
                       [user |-> req[r].user, originalSize |-> req[r].batch[1],
                        encryptedSize |-> Len(encrypted.data),
                        checksum |-> originalChecksum,
                        encryptedChecksum |-> hash(disk'[f]),
                        isDeleted |-> FALSE]]
       /\ storageUsed' = [storageUsed EXCEPT ![req[r].user] = @ + req[r].batch[1]]
       /\ Finish(r, req[r].user, "upload", 201, "none")
       /\ UNCHANGED <<Uploader, nextId, now, served, authVars>>

\* downloadFile: findOne({_id, user}), the blob read and decrypted, the
\* checksum compared, then Content-Length and the bytes sent
DownloadBytes(r, u, f) ==
    LET decrypted == decrypt(disk[f], encryptionKey(u))
    IN /\ req[r].pc = "idle"
       /\ req' = [req EXCEPT ![r] = Idle]
       /\ resp' = IF ~(Exists(f) /\ files[f].user = u)
                  THEN Response(u, "download", 404, "NotFound")
                  ELSE IF ~decrypted.success
                  THEN Response(u, "download", 500, "DecryptFailed")
                  ELSE IF hash(decrypted.data) # files[f].checksum
                  THEN Response(u, "download", 500, "IntegrityError")
                  ELSE [Response(u, "download", 200, "none")
                        EXCEPT !.body = decrypted.data]
                       @@ [contentLength |-> Len(decrypted.data)]
       /\ UNCHANGED <<Uploader, storageUsed, files, disk, nextId, now, served, authVars>>

\* One request at a time: the upload of one file, of every buffer up to
\* MaxLen bytes, and downloads
NextBytes ==
    \/ /\ arrived < MaxRequests /\ arrived' = arrived + 1
       /\ \/ \E u \in Users, n \in 0..MaxLen : \E data \in [1..n -> {0, 1}] :
                nextId = 0 /\ StageBytes(1, u, data)
          \/ \E u \in Users, f \in FileIds : DownloadBytes(1, u, f)
    \/ /\ \E s \in {0, 1}, v \in {0, 1} :
             UploadBytes(1, [i \in 1..saltLength |-> s], [i \in 1..ivLength |-> v])
       /\ UNCHANGED arrived

SpecBytes == Init /\ [][NextBytes]_vars

\* One request at a time of one user on her file, its share link and its
\* trash, and consumes of the link, while days pass
SpecShareTrash ==
    Init /\ [][\/ /\ arrived < MaxRequests + 2 /\ arrived' = arrived + 1
                  /\ \/ StageUpload(1, "alice", <<1>>)
                     \/ \E f \in FileIds, m \in {Undefined, Num(1)} :
                           ShareFind(1, "alice", f, Undefined, m, "none")
                     \/ \E f \in FileIds : DeleteFind(1, "alice", f, FALSE)
                     \/ \E f \in FileIds : RestoreFind(1, "alice", f)
                     \/ \E t \in 1..(MaxRequests + 2) : ConsumeFind(1, t, "none")
               \/ UploadCheckQuota(1) \/ UploadFile(1) \/ UploadSaveUser(1)
               \/ ShareSave(1)
               \/ DeleteSoftSave(1) \/ RestoreSave(1)
               \/ ConsumeRead(1) \/ ConsumeSave(1)
               \/ req[1].pc = "idle" /\ Tick]_vars


------------------------------------------------------------------------------
(* The descriptive fields and the access log of a record.  In this view a   *)
(* record also has tags, a description and an access log, and a request q   *)
(* is a record of its ip and of the body fields that it gives.               *)

MaxNameLength == 255
MaxTagLength == 50
MaxDescriptionLength == 500
MaxFolderLength == 500
MaxTags == 20
MaxAccessLog == 100

\* a log that is never cut
logAccess_unbounded(accessLog, action, ip, t) ==
    Append(accessLog, [action |-> action, timestamp |-> t, ip |-> ip])

\* fileSchema.methods.logAccess at time t: push, then keep the last 100
logAccess(accessLog, action, ip, t) ==
    LET pushed == Append(accessLog, [action |-> action, timestamp |-> t, ip |-> ip])
    IN IF Len(pushed) > MaxAccessLog
       THEN SubSeq(pushed, Len(pushed) - MaxAccessLog + 1, Len(pushed))
       ELSE pushed

\* uploadFiles for one empty file (it is within any quota and adds nothing to
\* storageUsed): File.create with the name of the file and folder, tags and
\* description of the body; a document that fails a schema validator is not
\* stored and its staged file is unlinked.  q.tags is the body's string
\* split at its commas
UploadFields(r, u, q) ==
    LET f == nextId + 1
        has(k) == k \in DOMAIN q
        doc == [originalName |-> q.originalName,
                folder |-> IF has("folder") /\ q.folder # "" THEN q.folder ELSE "/",
                tags |-> IF has("tags") THEN q.tags ELSE <<>>,
                description |-> IF has("description") THEN q.description ELSE "",
                accessLog |-> <<>>]
        valid == /\ doc.originalName # ""
                 /\ Len(doc.originalName) <= MaxNameLength
                 /\ \A i \in DOMAIN doc.tags : Len(doc.tags[i]) <= MaxTagLength
                 /\ Len(doc.description) <= MaxDescriptionLength
    IN /\ req[r].pc = "idle"
       /\ nextId < MaxFiles
       /\ nextId' = f
       /\ req' = [req EXCEPT ![r] = Idle]
       /\ resp' = Response(u, "upload", 201, IF valid THEN "none" ELSE "Validation")
       /\ files' = [files EXCEPT ![f] =
                       IF valid
                       THEN [k \in DOMAIN NewFile(u, 0) \cup DOMAIN doc |->
                                IF k \in DOMAIN doc THEN doc[k] ELSE NewFile(u, 0)[k]]
                       ELSE @]
       /\ disk' = [disk EXCEPT ![f] = IF valid THEN "enc" ELSE "absent"]
       /\ UNCHANGED <<Uploader, storageUsed, now, served, authVars>>

\* an update that stores a new name and logs nothing
UpdateFields_unlogged(r, u, f, q) ==
    /\ req[r].pc = "idle"
    /\ req' = [req EXCEPT ![r] = Idle]
    /\ IF ~(Visible(f, FALSE) /\ files[f].user = u)
       THEN /\ resp' = Response(u, "update", 404, "NotFound")
            /\ UNCHANGED files
       ELSE /\ resp' = Response(u, "update", 200, "none")
            /\ files' = [files EXCEPT ![f].originalName =
                            IF "originalName" \in DOMAIN q THEN q.originalName ELSE @]
    /\ UNCHANGED <<Uploader, storageUsed, disk, nextId, now, served, authVars>>

\* updateFile: findOne({_id, user}), the fields of the body checked and
\* assigned in turn, logAccess('update'), save
UpdateFields(r, u, f, q) ==
    LET has(k) == k \in DOMAIN q
        rec == files[f]
        named == has("originalName") /\ q.originalName # ""
        tags == [i \in 1..(IF Len(q.tags) < MaxTags THEN Len(q.tags) ELSE MaxTags) |->
                    SubSeq(q.tags[i], 1,
                           IF Len(q.tags[i]) < MaxTagLength THEN Len(q.tags[i])
                                                            ELSE MaxTagLength)]
        description == SubSeq(q.description, 1,
                              IF Len(q.description) < MaxDescriptionLength
                              THEN Len(q.description) ELSE MaxDescriptionLength)
    IN /\ req[r].pc = "idle"
       /\ req' = [req EXCEPT ![r] = Idle]
       /\ IF ~(Visible(f, FALSE) /\ files[f].user = u)
          THEN /\ resp' = Response(u, "update", 404, "NotFound")
               /\ UNCHANGED files
          ELSE IF \/ named /\ Len(q.originalName) > MaxNameLength
                  \/ has("folder") /\ Len(q.folder) > MaxFolderLength
          THEN /\ resp' = Response(u, "update", 400, "BadRequest")
               /\ UNCHANGED files
          ELSE /\ resp' = Response(u, "update", 200, "none")
               /\ files' = [files EXCEPT ![f] =
                     [rec EXCEPT
                        !.originalName = IF named THEN q.originalName ELSE @,
                        !.folder = IF ~has("folder") THEN @
                                   ELSE IF q.folder # "" /\ SubSeq(q.folder, 1, 1) = "/"
                                        THEN q.folder ELSE "/" \o q.folder,
                        !.tags = IF has("tags") THEN tags ELSE @,
                        !.description = IF has("description") THEN description ELSE @,
                        !.accessLog = logAccess(@, "update", q.ip, now)]]
       /\ UNCHANGED <<Uploader, storageUsed, disk, nextId, now, served, authVars>>

\* n updateFile requests with an empty body, one after the other within one
\* tick: each pushes its entry behind the entries the log holds and keeps the
\* last 100, so that the log ends as the last 100 of the old entries followed
\* by the n new ones
UpdateRepeated(r, u, f, ip, n) ==
    LET pushed == files[f].accessLog
                      \o [i \in 1..n |-> [action |-> "update", timestamp |-> now, ip |-> ip]]
    IN /\ req[r].pc = "idle"
       /\ Visible(f, FALSE) /\ files[f].user = u
       /\ req' = [req EXCEPT ![r] = Idle]
       /\ resp' = Response(u, "update", 200, "none")
       /\ files' = [files EXCEPT ![f].accessLog =
                       IF Len(pushed) > MaxAccessLog
                       THEN SubSeq(pushed, Len(pushed) - MaxAccessLog + 1, Len(pushed))
                       ELSE pushed]
       /\ UNCHANGED <<Uploader, storageUsed, disk, nextId, now, served, authVars>>

\* One request at a time of one user on the fields of her first file, while
\* the clock runs; the long strings are one character above and at the limits
SpecFields ==
    Init /\ [][LET a8 == "aaaaaaaa"
                   a64 == a8 \o a8 \o a8 \o a8 \o a8 \o a8 \o a8 \o a8
                   a512 == a64 \o a64 \o a64 \o a64 \o a64 \o a64 \o a64 \o a64
                   long(n) == SubSeq(a512, 1, n)
                   many == [i \in 1..(MaxTags + 1) |-> "t"]
               IN \/ /\ arrived < MaxRequests + 1 /\ arrived' = arrived + 1
                     /\ \/ \E q \in {[ip |-> "ip1", originalName |-> "n"],
                                     [ip |-> "ip1", originalName |-> long(MaxNameLength),
                                      description |-> long(MaxDescriptionLength)],
                                     [ip |-> "ip1", originalName |-> long(MaxNameLength + 1)],
                                     [ip |-> "ip1", originalName |-> "n", folder |-> "docs"],
                                     [ip |-> "ip1", originalName |-> "n", folder |-> "/docs",
                                      tags |-> <<"t", long(MaxTagLength)>>],
                                     [ip |-> "ip1", originalName |-> "n", tags |-> many],
                                     [ip |-> "ip1", originalName |-> "n",
                                      tags |-> <<long(MaxTagLength + 1)>>],
                                     [ip |-> "ip1", originalName |-> "n",
                                      description |-> long(MaxDescriptionLength + 1)]} :
                              nextId = 0 /\ UploadFields(1, "alice", q)
                        \/ \E f \in FileIds :
                              \E q \in {[ip |-> "ip2"],
                                        [ip |-> "ip2", originalName |-> "n2"],
                                        [ip |-> "ip2", originalName |-> long(MaxNameLength + 1),
                                         folder |-> "docs"],
                                        [ip |-> "ip2", folder |-> "docs"],
                                        [ip |-> "ip2", originalName |-> "n2",
                                         folder |-> long(MaxFolderLength + 1)],
                                        [ip |-> "ip2", tags |-> many, folder |-> "/x"],
                                        [ip |-> "ip2", tags |-> <<long(MaxTagLength + 1)>>,
                                         description |-> long(MaxDescriptionLength + 1)]} :
                              UpdateFields(1, "alice", f, q)
                        \/ \E f \in FileIds, n \in {MaxAccessLog - 1, MaxAccessLog} :
                              UpdateRepeated(1, "alice", f, "ip3", n)
                        \/ \E S \in IdSets, d \in {"docs", "/docs"} :
                              MoveFiles(1, "alice", S, d)
                  \/ Tick]_vars

-----------------------------------------------------------------------------
(* The browser's upload queue (Uploader, unnamed/part_000).  Each action is *)
(* one task of the browser's event loop: an event handler together with the *)
(* promise continuations that run before the next event is taken.  The      *)
(* progress bar and the toasts are not part of the state.                   *)

maxSize == 157286400

\* updateProgressItem(id, {status}): Object.assign on the item of this id,
\* nothing when the queue does not hold it
updateProgressItem(U, id, status) ==
    IF \E k \in 1..Len(U.uploadQueue) : U.uploadQueue[k] = id
    THEN [U EXCEPT !.items[id].status = status]
    ELSE U

\* processQueue up to its await: nothing while an upload runs; without a
\* pending item onQueueComplete, which sets the timeout that clears the queue;
\* else uploadFile(pendingItem) up to xhr.send and the status 'uploading'
processQueue(U) ==
    LET pending == {k \in 1..Len(U.uploadQueue) :
                       U.items[U.uploadQueue[k]].status = "pending"}
        first == CHOOSE k \in pending : \A j \in pending : k <= j
        pendingItem == U.uploadQueue[first]
    IN IF U.isUploading THEN U
       ELSE IF pending = {} THEN [U EXCEPT !.timeouts = @ + 1]
       ELSE updateProgressItem(
                [U EXCEPT !.isUploading = TRUE,
                          !.currentXHR = pendingItem,
                          !.sending = pendingItem,
                          !.sent = @ \cup {pendingItem}],
                pendingItem, "uploading")

\* addFiles(files): a file over maxSize or with the name and size of an item
\* in the queue is skipped, every other one pushed as a pending item; then
\* processQueue when the queue is not empty
addFiles(fileList) ==
    LET RECURSIVE push(_, _)
        push(U, k) ==
            IF k > Len(fileList) THEN U
            ELSE LET file == fileList[k]
                     id == Cardinality({i \in 1..MaxFiles :
                                           U.items[i].status # "none"}) + 1
                 IN IF file.size > maxSize THEN push(U, k + 1)
                    ELSE IF \E j \in 1..Len(U.uploadQueue) :
                                /\ U.items[U.uploadQueue[j]].name = file.name
                                /\ U.items[U.uploadQueue[j]].size = file.size
                         THEN push(U, k + 1)
                    ELSE push([U EXCEPT
                                 !.uploadQueue = Append(@, id),
                                 !.items[id] = [name |-> file.name,
                                                size |-> file.size,
                                                status |-> "pending"]],
                              k + 1)
        pushed == push([Uploader EXCEPT !.picked = @ + Len(fileList)], 1)
    IN /\ Uploader.picked + Len(fileList) <= MaxFiles
       /\ Uploader' = IF Len(pushed.uploadQueue) > 0
                      THEN processQueue(pushed)
                      ELSE pushed
       /\ UNCHANGED <<storageUsed, files, disk, nextId, req, resp, now, arrived,
                      served, authVars>>

\* the load or error event of the request in flight: the status goes to the
\* item if the queue still holds it, resolve() lets processQueue go on:
\* isUploading = false, processQueue()
uploadFile_done(status) ==
    /\ Uploader.sending # 0
    /\ Uploader' =
           processQueue(
               [updateProgressItem([Uploader EXCEPT !.sending = 0],
                                   Uploader.sending, status)
                   EXCEPT !.isUploading = FALSE])
    /\ UNCHANGED <<storageUsed, files, disk, nextId, req, resp, now, arrived,
                   served, authVars>>

\* cancelUpload: abort() of a request in flight runs its abort handler (status
\* 'error', resolve()), the queue is emptied, and the continuation of the
\* aborted upload then runs processQueue on the empty queue
cancelUpload ==
    LET aborted == Uploader.currentXHR # 0 /\ Uploader.sending = Uploader.currentXHR
        handled == IF aborted
                   THEN updateProgressItem([Uploader EXCEPT !.sending = 0],
                                           Uploader.currentXHR, "error")
                   ELSE Uploader
        cleared == [handled EXCEPT !.currentXHR = 0,
                                   !.uploadQueue = <<>>,
                                   !.isUploading = FALSE,
                                   !.cancelled = TRUE]
    IN /\ Uploader' = IF aborted THEN processQueue(cleared) ELSE cleared
       /\ UNCHANGED <<storageUsed, files, disk, nextId, req, resp, now, arrived,
                      served, authVars>>

\* the callback that onQueueComplete set with setTimeout(..., 2000)
onQueueComplete_timeout ==
    /\ Uploader.timeouts > 0
    /\ Uploader' = [Uploader EXCEPT !.uploadQueue = <<>>, !.timeouts = @ - 1]
    /\ UNCHANGED <<storageUsed, files, disk, nextId, req, resp, now, arrived,
                   served, authVars>>

\* The user picks files and cancels at any time; a request in flight ends
\* with a load or an error event, and a timeout that was set runs.
SpecUploader ==
    /\ Init
    /\ [][\/ \E fileList \in
                  {<<[name |-> "a", size |-> 1]>>,
                   <<[name |-> "b", size |-> 1]>>,
                   <<[name |-> "a", size |-> maxSize]>>,
                   <<[name |-> "a", size |-> 1], [name |-> "b", size |-> 1]>>,
                   <<[name |-> "a", size |-> 1], [name |-> "a", size |-> 1]>>,
                   <<[name |-> "c", size |-> maxSize + 1]>>} :
               addFiles(fileList)
          \/ \E status \in {"success", "error"} : uploadFile_done(status)
          \/ cancelUpload
          \/ onQueueComplete_timeout]_vars
    /\ WF_vars(\E status \in {"success", "error"} : uploadFile_done(status))
    /\ WF_vars(onQueueComplete_timeout)

-----------------------------------------------------------------------------
(* Quota accounting *)

\* the request in slot r takes this step
Steps(r) == req'[r] # req[r]

\* C1: an upload request with storageUsed + the sum of its file sizes above
\* storageLimit is refused as a whole with QuotaExceeded (400): no record is
\* created, every staged blob is removed, storageUsed is unchanged.
C1_QuotaRejectsWholeRequest ==
    [][\A r \in Reqs :
          ( /\ req[r].pc = "upFindUser"
            /\ Steps(r)
            /\ storageUsed[req[r].user] + SumSizes(req[r].batch) > storageLimit[req[r].user] )
          => /\ resp' = Response(req[r].user, "upload", 400, "QuotaExceeded")
             /\ req'[r] = Idle
             /\ files' = files
             /\ storageUsed' = storageUsed
             /\ \A k \in 1..Len(req[r].batch) : disk'[req[r].batch[k].id] = "absent"]_vars

\* an upload was refused for a user who already uses storage
C1_Witness ==
    /\ resp.op = "upload" /\ resp.status = 400 /\ resp.error = "QuotaExceeded"
    /\ storageUsed[resp.user] > 0

\* C2: storageUsed of every user is >= 0 in every reachable state.
C2_StorageUsedNonNegative == \A u \in Users : storageUsed[u] >= 0

\* a permanent delete freed more than the counter held and wrote the clamped value
C2_Witness ==
    \E r \in Reqs :
        /\ req[r].pc = "delRecord"
        /\ req[r].used < req[r].acc
        /\ storageUsed[req[r].user] = 0

\* C3: right after an accepted upload request has completed, storageUsed of
\* its user is <= storageLimit.
C3_UsedWithinLimitAfterUpload ==
    (resp.op = "upload" /\ resp.status = 201)
        => storageUsed[resp.user] <= storageLimit[resp.user]

\* an upload that filled the quota has completed while another request is in flight
C3_Witness ==
    /\ resp.op = "upload" /\ resp.status = 201
    /\ storageUsed[resp.user] = storageLimit[resp.user]
    /\ \E r \in Reqs : req[r].pc # "idle" /\ req[r].user = resp.user

\* C4: with one request at a time and no failing step, after every request
\* storageUsed of each user is the sum of the plaintext sizes of the user's
\* records, soft-deleted ones included.
C4_UsedEqualsRecordTotal ==
    req[1].pc = "idle" => \A u \in Users : storageUsed[u] = RecordTotal(u)

\* a permanent delete has completed while a trashed file still counts
C4_Witness ==
    /\ resp.op = "delete" /\ resp.status = 200
    /\ \E f \in OwnedBy(resp.user) : files[f].isDeleted /\ files[f].originalSize > 0
    /\ storageUsed[resp.user] > 0

\* C5: with concurrent uploads of one user the total size of the committed
\* records exceeds storageLimit by at most the size of one request (a request
\* that passed the check is no larger than the limit).
C5_OverCommitByOneRequest ==
    \A u \in Users : RecordTotal(u) <= storageLimit[u] + StorageLimit

\* a soft delete, a restore or a bulk delete without permanent
SoftOp(q) ==
    \/ q.op = "delete" /\ ~q.perm
    \/ q.op = "restore"
    \/ q.op = "bulkDelete" /\ ~q.perm

\* C6: no step of a soft delete, a restore or a bulk soft delete changes
\* storageUsed of any user.
C6_SoftDeleteKeepsUsed ==
    [][\A r \in Reqs :
          (Steps(r) /\ (SoftOp(req[r]) \/ SoftOp(req'[r])))
          => storageUsed' = storageUsed]_vars

\* a file has been moved to the trash and still counts towards the quota
C6_Witness ==
    /\ resp.op = "softDelete" /\ resp.status = 200
    /\ \E f \in OwnedBy(resp.user) :
          /\ files[f].isDeleted
          /\ files[f].originalSize > 0
          /\ storageUsed[resp.user] >= files[f].originalSize

\* C7: a permanent delete of a file of the caller, trashed or not, removes the
\* blob (a blob already missing is no error), decreases storageUsed of the
\* owner by the file's plaintext size, clamped at 0, removes the record and
\* answers 200.
C7_PermanentDelete ==
    /\ [](\A u \in Users, f \in FileIds :
             (req[1].pc = "idle" /\ Exists(f) /\ files[f].user = u)
             => ENABLED ( /\ DeleteFind(1, u, f, TRUE)
                         /\ req'[1].pc = "delFindUser"
                         /\ disk'[f] = "absent" ))
    /\ [][ /\ (req[1].pc = "delSaveUser" /\ Steps(1))
              => LET f == req[1].batch[1].id
                     u == req[1].user
                 IN /\ storageUsed'[u] = Max(0, storageUsed[u] - files[f].originalSize)
                    /\ \A v \in Users \ {u} : storageUsed'[v] = storageUsed[v]
           /\ (req[1].pc = "delRecord" /\ Steps(1))
              => LET f == req[1].batch[1].id
                 IN /\ files'[f] = NoFile
                    /\ \A g \in FileIds \ {f} : files'[g] = files[g]
                    /\ disk'[f] = "absent"
                    /\ storageUsed' = storageUsed
                    /\ resp' = Response(req[1].user, "delete", 200, "none") ]_vars

\* a trashed file whose blob was already missing has been deleted for good
C7_Witness ==
    /\ req[1].pc = "delRecord"
    /\ ~req[1].had
    /\ req[1].batch[1].del
    /\ req[1].batch[1].size > 0
    /\ storageUsed[req[1].user] = 0

-----------------------------------------------------------------------------
(* Share links *)

\* C8: a share is consumable iff its token is present, its expiry is absent or
\* later than now, and its max-downloads is absent or above its download-count;
\* a consume of a token that resolves to a record whose share fails this is
\* refused with ShareExpired (410), and one whose share meets it is not.
C8_ShareConsumableIff ==
    \A f \in FileIds, p \in Guesses :
        (req[1].pc = "idle" /\ Visible(f, FALSE) /\ files[f].shareToken # 0) =>
            LET doc == files[f]
                consumable ==
                    /\ doc.shareToken # 0
                    /\ (doc.shareExpires = -1 \/ doc.shareExpires > now)
                    /\ (doc.maxDownloads = -1 \/ doc.downloadCount < doc.maxDownloads)
            IN IF consumable
               THEN ENABLED (ConsumeFind(1, doc.shareToken, p)
                             /\ ~(resp'.status = 410 /\ resp'.error = "ShareExpired"))
               ELSE ENABLED (ConsumeFind(1, doc.shareToken, p)
                             /\ resp'.status = 410 /\ resp'.error = "ShareExpired")

\* C9: of a share created with max-downloads N >= 1 and not expired, exactly N
\* consumes deliver the file, whatever the file's earlier downloads: while fewer
\* than N have been delivered a consume with the right password passes the
\* validity check, and once N have been every consume is refused with
\* ShareExpired (410).
C9_ExactlyNConsumes ==
    \A f \in FileIds :
        (/\ req[1].pc = "idle" /\ Visible(f, FALSE) /\ files[f].shareToken # 0
         /\ served[f].limit >= 1 /\ files[f].shareExpires > now) =>
            /\ served[f].count <= served[f].limit
            /\ served[f].count < served[f].limit =>
                   \E p \in Guesses :
                       ENABLED (ConsumeFind(1, files[f].shareToken, p)
                                /\ req'[1].pc = "consumeFindOwner")
            /\ served[f].count >= served[f].limit =>
                   \A p \in Guesses :
                       ENABLED (ConsumeFind(1, files[f].shareToken, p)
                                /\ resp'.status = 410)

\* C10: the save of a share created on a file that already has one replaces
\* the token, so that no record answers to the old token any more, and sets
\* the file's download-count to 0.
C10_ReshareReplacesTokenResetsCount ==
    [][\A f \in FileIds :
          (/\ req[1].pc = "shareSave" /\ Steps(1) /\ req[1].batch[1].id = f
           /\ Exists(f) /\ files[f].shareToken # 0) =>
              /\ files'[f].shareToken \notin {0, files[f].shareToken}
              /\ \A g \in FileIds :
                     Exists(g)' => files'[g].shareToken # files[f].shareToken
              /\ files'[f].downloadCount = 0]_vars

\* a token that was issued and that no record carries and no share request is
\* about to save
DeadToken(t) ==
    /\ t <= arrived
    /\ \A g \in FileIds : Exists(g) => files[g].shareToken # t
    /\ req[1].share.shareToken # t

\* C11: the save of a share revoke clears token, expiry, password verifier and
\* max-downloads of the record in that one step and changes nothing else of it;
\* the revoked token is on no record afterwards, a token that no record carries
\* and no share request is about to save never comes back, and a consume that
\* presents such a token is answered NotFound (404).
C11_RevokeClearsShare ==
    /\ [](\A t \in Tokens, p \in Guesses :
             (req[1].pc = "idle" /\ DeadToken(t)) =>
                 ENABLED (ConsumeFind(1, t, p)
                          /\ resp' = Response("anon", "consume", 404, "NotFound")))
    /\ [][/\ \A f \in FileIds :
               (/\ req[1].pc = "revokeSave" /\ Steps(1)
                /\ req[1].batch[1].id = f /\ Exists(f)) =>
                   /\ files'[f] = [files[f] EXCEPT
                                      !.shareToken = 0, !.shareExpires = -1,
                                      !.sharePassword = "none",
                                      !.maxDownloads = -1]
                   /\ \A g \in FileIds :
                          (Exists(g)' /\ files[f].shareToken # 0) =>
                              files'[g].shareToken # files[f].shareToken
                   /\ req'[1] = Idle
                   /\ resp' = Response(req[1].user, "revoke", 200, "none")
          /\ \A t \in Tokens :
               DeadToken(t) =>
                   /\ \A g \in FileIds : Exists(g)' => files'[g].shareToken # t
                   /\ req'[1].share.shareToken # t]_vars

\* a consume is answered NotFound after the share of a file, created with a
\* limit, has been revoked
C11_Witness ==
    /\ resp = Response("anon", "consume", 404, "NotFound")
    /\ \E f \in FileIds :
          /\ Exists(f) /\ ~files[f].isDeleted
          /\ files[f].shareToken = 0
          /\ served[f].limit >= 1

\* C12: a consume is answered by the first check it fails, in the order unknown
\* token (404 NotFound), invalid share (410 ShareExpired), password set and
\* none supplied (401 requiresPassword), password supplied and mismatched (401
\* AuthFailure); a consume answered 404, 410 or 401 writes no record; and the
\* save of a consume that passed the checks and read the blob raises the
\* record's download-count by exactly 1 and changes nothing else of it.
C12_ConsumeCheckOrder ==
    /\ [](\A t \in Tokens, p \in Guesses :
             req[1].pc = "idle" =>
                 LET known == ByToken(t) # {}
                     doc == files[CHOOSE g \in ByToken(t) : TRUE]
                     answer(status, error) ==
                         ENABLED (ConsumeFind(1, t, p)
                                  /\ resp' = Response("anon", "consume", status, error))
                 IN /\ ~known => answer(404, "NotFound")
                    /\ (known /\ ~isShareValid(doc, now)) => answer(410, "ShareExpired")
                    /\ (known /\ isShareValid(doc, now) /\ doc.sharePassword # "none"
                        /\ p = "none") => answer(401, "PasswordRequired")
                    /\ (known /\ isShareValid(doc, now) /\ doc.sharePassword # "none"
                        /\ p # "none" /\ ~Compare(p, doc.sharePassword))
                           => answer(401, "AuthFailure")
                    /\ (known /\ isShareValid(doc, now)
                        /\ (doc.sharePassword # "none" => Compare(p, doc.sharePassword)))
                           => ENABLED (ConsumeFind(1, t, p)
                                       /\ req'[1].pc = "consumeFindOwner"))
    /\ [][/\ (resp'.op = "consume" /\ resp'.status \in {401, 404, 410}) =>
                 files' = files
          /\ \A f \in FileIds :
               (/\ req[1].pc = "consumeSave" /\ Steps(1)
                /\ req[1].batch[1].id = f /\ Exists(f)) =>
                   /\ files' = [files EXCEPT ![f].downloadCount = @ + 1]
                   /\ resp' = Response("anon", "consume", 200, "none")]_vars

\* a consume without the password of a password-protected share that has
\* expired is answered 410
C12_Witness ==
    /\ resp = Response("anon", "consume", 410, "ShareExpired")
    /\ \E f \in FileIds :
          /\ Visible(f, FALSE) /\ files[f].shareToken # 0
          /\ files[f].sharePassword # "none"
          /\ files[f].shareExpires < now

-----------------------------------------------------------------------------
(* Login and tokens *)

\* C13: counted from an account with no lock, one login at a time, the fifth
\* failed login in a row locks the account until the time of that failure plus
\* the lock time, and a first to fourth failure in a row leaves it without a
\* lock.
C13_FiveFailuresLock ==
    [][\A u \in AuthUsers :
          (/\ req[1].pc = "loginIncrement" /\ Steps(1) /\ req[1].user = u
           /\ accounts[u].lockUntil = NoDate) =>
              /\ fails'[u] <= MaxAttempts
              /\ fails'[u] = MaxAttempts =>
                     accounts'[u].lockUntil = req[1].at + LockTime
              /\ fails'[u] < MaxAttempts => accounts'[u].lockUntil = NoDate]_vars

\* the fifth failure in a row has just locked the account
C13_Witness ==
    /\ resp = Response("alice", "login", 401, "AuthFailure")
    /\ fails["alice"] = MaxAttempts
    /\ accounts["alice"].loginAttempts = MaxAttempts
    /\ isLocked(accounts["alice"], now)

\* C14: while the account's locked-until is later than now, a login, with the
\* right password or a wrong one, is answered AccountLocked (423) at once, and
\* a login answered 423 signs no token and leaves the failed-login counter and
\* locked-until as they were.
C14_LockedLoginRejected ==
    /\ [](\A u \in AuthUsers, p \in Candidates :
             (/\ req[1].pc = "idle"
              /\ accounts[u].lockUntil # NoDate /\ accounts[u].lockUntil > now) =>
                 ENABLED (/\ LoginFind(1, u, p)
                          /\ resp' = Response(u, "login", 423, "AccountLocked")
                          /\ req'[1] = Idle))
    /\ [][(resp'.op = "login" /\ resp'.status = 423) =>
              /\ accounts' = accounts
              /\ jwts' = jwts]_vars

\* a login has been answered 423 on an account locked after five failures
C14_Witness ==
    /\ resp = Response("alice", "login", 423, "AccountLocked")
    /\ accounts["alice"].loginAttempts = MaxAttempts
    /\ accounts["alice"].lockUntil > now

C17_OldTokensRejected ==
    [](\A tok \in jwts :
          (/\ req[1].pc = "idle"
           /\ changed[tok.user] # NoDate
           /\ tok.iat < changed[tok.user]) =>
              ENABLED (/\ Protect(1, tok)
                       /\ resp' = Response(tok.user, "protect", 401, "AuthFailure")))

(* Integrity of stored blobs *)

\* the file whose stored blob the request in slot 1 is about to read
Reading(f) ==
    /\ req[1].batch # <<>> /\ req[1].batch[1].id = f
    /\ \/ req[1].pc = "dlFind" /\ Visible(f, FALSE) /\ files[f].user = req[1].user
       \/ req[1].pc = "consumeFindOwner"

\* C16: an owner download or a share consume goes on to send bytes only if the
\* stored blob authenticates under the owner's key and its plaintext has the
\* recorded SHA-256; when the blob on disk is damaged the request is answered
\* 500 and download-count, storage-used, the blob and the record stay as they
\* were.
C16_IntegrityGate ==
    /\ [][\A f \in FileIds :
             (Reading(f) /\ Steps(1) /\ disk[f] \in Damaged) =>
                 /\ resp'.status = 500 /\ resp'.op \in {"download", "consume"}
                 /\ req'[1] = Idle
                 /\ files' = files /\ storageUsed' = storageUsed /\ disk' = disk]_vars
    /\ [][(/\ resp'.op \in {"download", "consume"} /\ resp'.status = 200) =>
              /\ req[1].pc \in {"dlSave", "consumeSave"}
              /\ files'[req[1].batch[1].id].downloadCount = req[1].acc]_vars
    /\ [][(/\ req'[1].pc \in {"dlSave", "consumeSave"}
           /\ req[1].pc \notin {"dlSave", "consumeSave"}) =>
              disk[req[1].batch[1].id] = "enc"]_vars

\* a share consume has been answered 500 on a damaged blob that is still on
\* disk, its record still there with no download counted
C16_Witness ==
    /\ resp = Response("anon", "consume", 500, "IntegrityFailure")
    /\ \E f \in FileIds : /\ Exists(f) /\ disk[f] \in Damaged
                          /\ files[f].shareToken # 0
                          /\ files[f].downloadCount = 0
                          /\ storageUsed[files[f].user] = files[f].originalSize

(* Ownership and the trash *)

\* the user whose request takes this step, and the operation of that request
Caller ==
    IF req[1].pc # "idle" THEN req[1].user
    ELSE IF req'[1].pc # "idle" THEN req'[1].user ELSE resp'.user
OpOf ==
    IF req[1].pc # "idle" THEN req[1].op
    ELSE IF req'[1].pc # "idle" THEN req'[1].op ELSE resp'.op

\* the ids a listing returned
Returned(r) == {r.body[i] : i \in DOMAIN r.body}

\* C18: a request of user A that names a file of another user B is answered
\* NotFound (bulk delete and move skip the id) and leaves B's record, blob and
\* storage-used as they were; the owner of a record never changes.
C18_ForeignFilesUntouched ==
    /\ [][\A f \in FileIds :
             (Exists(f) /\ Caller # files[f].user) =>
                 /\ files'[f] = files[f]
                 /\ disk'[f] = disk[f]
                 /\ storageUsed'[files[f].user] = storageUsed[files[f].user]]_vars
    /\ [][\A f \in FileIds :
             (Exists(f) /\ files'[f] # NoFile) => files'[f].user = files[f].user]_vars
    /\ [][\A f \in FileIds :
             (/\ req[1].pc \in {"dlFind", "pvFind"} /\ Steps(1)
              /\ req[1].batch[1].id = f /\ Exists(f)
              /\ files[f].user # req[1].user) =>
                 resp' = Response(req[1].user, req[1].op, 404, "NotFound")]_vars
    /\ [](\A a \in Users, f \in FileIds :
             (req[1].pc = "idle" /\ Exists(f) /\ files[f].user # a) =>
                 /\ ENABLED (GetFile(1, a, f)
                             /\ resp' = Response(a, "getFile", 404, "NotFound"))
                 /\ \A p \in BOOLEAN :
                       ENABLED (DeleteFind(1, a, f, p)
                                /\ resp' = Response(a, "delete", 404, "NotFound"))
                 /\ ENABLED (RestoreFind(1, a, f)
                             /\ resp' = Response(a, "restore", 404, "NotFound"))
                 /\ ENABLED (UpdateFind(1, a, f, "n2", "docs")
                             /\ resp' = Response(a, "update", 404, "NotFound"))
                 /\ ENABLED (ShareFind(1, a, f, Undefined, Undefined, "none")
                             /\ resp' = Response(a, "share", 404, "NotFound"))
                 /\ ENABLED (RevokeFind(1, a, f)
                             /\ resp' = Response(a, "revoke", 404, "NotFound")))

\* bob's delete has been answered NotFound when every file id names a file
\* of alice, whose blobs and storage-used are intact
C18_Witness ==
    /\ resp = Response("bob", "delete", 404, "NotFound")
    /\ \A f \in FileIds : /\ Exists(f) /\ files[f].user = "alice"
                          /\ disk[f] = "enc" /\ ~files[f].isDeleted
    /\ storageUsed["alice"] = 1

\* C19: the default listing never returns a record with is-deleted = true, the
\* trash listing returns only records of the caller with is-deleted = true,
\* and each existing file of a user is returned by exactly one of the two.
C19_ListingsPartition ==
    /\ [][resp'.op = "getFiles" =>
              \A f \in Returned(resp') :
                  Exists(f) /\ files[f].user = resp'.user /\ ~files[f].isDeleted]_vars
    /\ [][resp'.op = "getTrash" =>
              \A f \in Returned(resp') :
                  Exists(f) /\ files[f].user = resp'.user /\ files[f].isDeleted]_vars
    /\ [](\A u \in Users :
             req[1].pc = "idle" =>
                 /\ ENABLED (/\ GetFiles(1, u, Undefined, Undefined, "")
                             /\ Returned(resp') = {f \in OwnedBy(u) : ~files[f].isDeleted}
                             /\ Len(resp'.body) = Cardinality(Returned(resp')))
                 /\ ENABLED (/\ GetTrash(1, u, Undefined, Undefined)
                             /\ Returned(resp') = {f \in OwnedBy(u) : files[f].isDeleted}
                             /\ Len(resp'.body) = Cardinality(Returned(resp'))))

\* alice's trash listing has returned her one soft-deleted file while she has
\* another file that is not deleted
C19_Witness ==
    /\ resp.op = "getTrash" /\ resp.user = "alice" /\ Len(resp.body) = 1
    /\ \E f \in OwnedBy("alice") : ~files[f].isDeleted
    /\ \E f \in OwnedBy("alice") : files[f].isDeleted /\ resp.body = <<f>>

\* C20: while a file is soft-deleted, the owner's get, download, preview,
\* update, share create, share revoke and move treat it as absent: the steps
\* of these requests leave every field of the soft-deleted record unchanged.
C20_SoftDeletedUntouched ==
    [][\A f \in FileIds :
          (/\ Exists(f) /\ files[f].isDeleted
           /\ OpOf \in {"getFile", "download", "preview", "update", "share",
                        "revoke", "move"}) =>
              files'[f] = files[f]]_vars

(* Idempotence of soft delete and restore *)

\* C21: soft-deleting a file that is already soft-deleted leaves is-deleted
\* and deleted-at as they were, and restoring a file that is not soft-deleted
\* leaves is-deleted and deleted-at as they were.
C21_SoftDeleteRestoreIdempotent ==
    /\ [][\A f \in FileIds :
             (/\ req[1].pc = "delSoftSave" /\ Steps(1)
              /\ req[1].batch[1].id = f /\ Exists(f) /\ files[f].isDeleted) =>
                 /\ files'[f].isDeleted = files[f].isDeleted
                 /\ files'[f].deletedAt = files[f].deletedAt]_vars
    /\ [][\A f \in FileIds :
             (/\ OpOf = "restore" /\ Exists(f) /\ ~files[f].isDeleted) =>
                 files'[f] = files[f]]_vars

(* Failures in uploads and deletes *)

\* the plaintext sizes of the records that the files of a batch have in fs
CommittedSize(batch, fs) ==
    SumOver({batch[k].id : k \in {j \in DOMAIN batch : fs[batch[j].id] # NoFile}},
            [g \in FileIds |-> IF fs[g] # NoFile THEN fs[g].originalSize ELSE 0])

\* C22: in an upload batch that passed the quota check, a file whose
\* processing fails has its staged blob removed and no record created, the
\* next file of the batch is processed next, records already committed are
\* kept, and storage-used is increased once, after the batch, by the sum of
\* the plaintext sizes of the files whose records were committed.
C22_UploadPartialFailure ==
    /\ [][(req[1].pc = "upFile" /\ Steps(1)) =>
              LET b == req[1].batch[req[1].i]
              IN /\ \A g \in FileIds \ {b.id} : files'[g] = files[g] /\ disk'[g] = disk[g]
                 /\ files'[b.id] = NoFile => disk'[b.id] = "absent"
                 /\ files'[b.id] # NoFile =>
                        disk'[b.id] = "enc" /\ files'[b.id].originalSize = b.size
                 /\ req[1].i < Len(req[1].batch) =>
                        req'[1].pc = "upFile" /\ req'[1].i = req[1].i + 1
                 /\ storageUsed' = storageUsed
                 /\ resp'.status = 201 => CommittedSize(req[1].batch, files') = 0]_vars
    /\ [][(req[1].pc = "upSaveUser" /\ Steps(1)) =>
              /\ resp' = Response(req[1].user, "upload", 201, "none")
              /\ files' = files /\ disk' = disk
              /\ storageUsed' = [storageUsed EXCEPT ![req[1].user] =
                                    @ + CommittedSize(req[1].batch, files)]]_vars

\* an upload of two files has ended: the first failed and left neither blob
\* nor record, the second was committed and is all that was charged
C22_Witness ==
    /\ resp = Response("alice", "upload", 201, "none")
    /\ arrived = 1 /\ nextId = 2
    /\ files[1] = NoFile /\ disk[1] = "absent"
    /\ Exists(2) /\ files[2].originalSize = 1 /\ disk[2] = "enc"
    /\ storageUsed["alice"] = 1

(* Blobs and records *)

\* C23: in every reachable state, the intermediate states of concurrently
\* running requests included, the blob of every file record that is not
\* deleted exists on disk.
C23_BlobOfLiveRecordExists ==
    \A f \in FileIds : (Exists(f) /\ ~files[f].isDeleted) => disk[f] # "absent"


\* C24: the blob store keeps no plaintext once an upload request has ended:
\* the file at the storage path of a record is the encrypted container, and
\* when no upload is running (which includes every upload ended without a
\* record for a staged file) no staged plaintext file is on disk.
C24_NoPlaintextAtRest ==
    /\ \A f \in FileIds : Exists(f) => disk[f] \in {"enc", "absent"}
    /\ req[1].op # "upload" => \A f \in FileIds : disk[f] # "plain"


\* C25: when removing the blob fails during a permanent delete, the delete
\* still proceeds: the record is removed and the blob stays as it was.
C25_UnlinkFailureStillDeletes ==
    [][\A f \in FileIds :
          DeleteUnlinkFails(1, "alice", f) =>
              files'[f] = NoFile /\ disk'[f] = disk[f]]_vars

\* C26: in bulk permanent delete and in empty trash, storage-used is decreased
\* by exactly the sum of the plaintext sizes of the records that were removed:
\* a file whose removal failed contributes nothing to the refund.
C26_RefundOnlyRemoved ==
    [][(req[1].pc \in {"trashSaveUser", "bulkSaveUser"} /\ Steps(1)) =>
           LET docs == req[1].batch
               gone == {k \in DOMAIN docs : files[docs[k].id] = NoFile}
               removed == SumOver(gone, [k \in DOMAIN docs |-> docs[k].size])
           IN storageUsed'[req[1].user] = Max(0, storageUsed[req[1].user] - removed)]_vars


\* C27: preview is the download path restricted to images: for an image it
\* goes on to send bytes only after the integrity gate of download (the blob
\* decrypts and the SHA-256 of its plaintext is the recorded checksum), and
\* for a file that is not an image it fails without changing record or blob.
C27_PreviewSameGate ==
    /\ [][(req[1].pc = "pvFind" /\ req'[1].pc = "pvSave") =>
              ReadBlob(req[1].batch[1].id).status = 0]_vars
    /\ [][(resp'.op = "preview" /\ resp'.status = 400) =>
              files' = files /\ disk' = disk]_vars


\* C28: the folder listing returns exactly the distinct folders of the
\* caller's files that are not deleted (a folder whose only files are
\* soft-deleted is not returned), and the folders returned are the keys of
\* the folder-to-count map.
C28_FoldersOfLiveFiles ==
    [][resp'.op = "getFolders" =>
           /\ Returned(resp') = {files[f].folder :
                                    f \in {g \in OwnedBy(resp'.user) : ~files[g].isDeleted}}
           /\ Returned(resp') = {p[1] : p \in resp'.folderCounts}]_vars

\* C29: the total of the default listing counts the caller's records that
\* are not deleted and match the filter, and is the number of records that
\* the listing returns.
C29_TotalCountsLiveFiles ==
    [][\A u \in Users, d \in {"", "/docs"} :
           GetFiles(1, u, Undefined, Undefined, d) =>
               /\ resp'.total = Cardinality({f \in OwnedBy(u) :
                                    /\ ~files[f].isDeleted
                                    /\ d # "" => files[f].folder = d})
               /\ resp'.total = Len(resp'.body)]_vars


\* C30: an upload of bytes b commits a record with plaintext size len(b),
\* ciphertext size len(b) + 96, plaintext checksum SHA-256(b) and ciphertext
\* checksum SHA-256 of the container on disk, from which the owner's key gives
\* b back; record and container stay as they are, and a later download by the
\* owner sends the bytes of the container, b, with Content-Length len(b).
C30_UploadedBytesComeBack ==
    /\ [][(req[1].pc = "upBytes" /\ Steps(1)) =>
              LET f == nextId
                  b == disk[f]
              IN /\ files'[f].originalSize = Len(b)
                 /\ files'[f].encryptedSize = Len(b) + 96
                 /\ files'[f].checksum = hash(b)
                 /\ files'[f].encryptedChecksum = hash(disk'[f])
                 /\ Len(disk'[f]) = files'[f].encryptedSize
                 /\ decrypt(disk'[f], encryptionKey(files'[f].user)).data = b]_vars
    /\ [][\A f \in FileIds :
             Exists(f) => files'[f] = files[f] /\ disk'[f] = disk[f]]_vars
    /\ [][\A f \in FileIds :
             (Exists(f) /\ DownloadBytes(1, files[f].user, f)) =>
                 LET b == decrypt(disk[f], encryptionKey(files[f].user)).data
                 IN /\ resp'.status = 200
                    /\ resp'.body = b
                    /\ resp'.contentLength = Len(b)
                    /\ Len(b) = files[f].originalSize
                    /\ hash(b) = files[f].checksum]_vars

\* the owner has downloaded a file of MaxLen bytes
C30_Witness ==
    /\ resp.op = "download" /\ resp.status = 200
    /\ Len(resp.body) = MaxLen
    /\ \E f \in FileIds :
          /\ Exists(f) /\ files[f].user = resp.user
          /\ files[f].encryptedSize = MaxLen + 96
          /\ files[f].checksum = hash(resp.body)


\* C31: decrypt(encrypt(b, k), k) = b for every buffer b of the model and
\* every user key k: the container that the upload wrote holds salt, iv
\* and tag at the offsets 64, 80 and 96 at which decrypt slices it, decrypt
\* succeeds on it under the key that wrote it and returns the staged bytes.
C31_RoundTrip ==
    /\ [][(req[1].pc = "upBytes" /\ Steps(1)) =>
              LET b == disk[nextId]
                  k == encryptionKey(req[1].user)
                  c == disk'[nextId]
              IN /\ decrypt(c, k) = [success |-> TRUE, data |-> b]
                 /\ \E s \in {0, 1}, v \in {0, 1} :
                       /\ SubSeq(c, 1, 64) = [i \in 1..64 |-> s]
                       /\ SubSeq(c, 65, 80) = [i \in 1..16 |-> v]
                       /\ SubSeq(c, 81, 96) =
                              getAuthTag(deriveKey(k, SubSeq(c, 1, 64)), SubSeq(c, 65, 80),
                                         SubSeq(c, 97, Len(c)))
                       /\ c = encrypt(b, k, SubSeq(c, 1, 64), SubSeq(c, 65, 80)).data]_vars
    /\ [](\A f \in FileIds :
             (Exists(f) /\ req[1].pc = "idle") =>
                 LET d == decrypt(disk[f], encryptionKey(files[f].user))
                 IN d.success /\ hash(d.data) = files[f].checksum
                    /\ encrypt(d.data, encryptionKey(files[f].user),
                               SubSeq(disk[f], 1, 64), SubSeq(disk[f], 65, 80)).data = disk[f])

\* bob's file of one byte has been encrypted and decrypted again for his
\* download
C31_Witness ==
    /\ resp.op = "download" /\ resp.status = 200 /\ resp.user = "bob"
    /\ Len(resp.body) = 1
    /\ \E f \in FileIds :
          /\ Exists(f) /\ files[f].user = "bob"
          /\ decrypt(disk[f], encryptionKey("bob")).data = resp.body


\* C35: no update of the storage counter is lost: whenever all requests of an
\* interleaving of uploads, permanent deletes, bulk deletes and empty-trash
\* requests have completed, storageUsed of each user is the sum of the sizes
\* of the user's remaining records.
C35_NoLostUpdate ==
    (\A r \in Reqs : req[r].pc = "idle") =>
        \A u \in Users : storageUsed[u] = RecordTotal(u)


\* C38: the save of a share create leaves the record with exactly the
\* constraints of that request, whatever share the file had before: the
\* password verifier of the request or none when it gave no password, the
\* max-downloads of the request or no limit when it gave none.
C38_ShareCarriesRequestConstraints ==
    [][(req[1].pc = "shareSave" /\ Steps(1) /\ resp'.status = 200) =>
           LET f == req[1].batch[1].id
               s == req[1].share
           IN /\ files'[f].sharePassword =
                     (IF s.sharePassword = UnsetPassword THEN "none" ELSE s.sharePassword)
              /\ files'[f].maxDownloads =
                     (IF s.maxDownloads = Unset THEN -1 ELSE s.maxDownloads)]_vars


\* C39: a consume of the share token of a soft-deleted file is answered
\* NotFound and passes no check; soft delete and restore leave the share fields
\* of the record as they were, so that after a restore a consume of the same
\* token passes the checks again when the share is still valid.
C39_SoftDeletedShareHidden ==
    /\ [](\A f \in FileIds :
             (req[1].pc = "idle" /\ Exists(f) /\ files[f].isDeleted
                  /\ files[f].shareToken # 0) =>
                 /\ ENABLED (/\ ConsumeFind(1, files[f].shareToken, "none")
                             /\ resp' = Response("anon", "consume", 404, "NotFound"))
                 /\ ~ENABLED (/\ ConsumeFind(1, files[f].shareToken, "none")
                              /\ resp' # Response("anon", "consume", 404, "NotFound")))
    /\ [][(req'[1].op = "consume" /\ req'[1].pc # "idle") =>
              ~files[req'[1].batch[1].id].isDeleted]_vars
    /\ [][\A f \in FileIds :
             (Exists(f) /\ files'[f] # NoFile /\ files'[f].isDeleted # files[f].isDeleted) =>
                 /\ files'[f].shareToken = files[f].shareToken
                 /\ files'[f].shareExpires = files[f].shareExpires
                 /\ files'[f].sharePassword = files[f].sharePassword
                 /\ files'[f].maxDownloads = files[f].maxDownloads
                 /\ files'[f].downloadCount = files[f].downloadCount]_vars
    /\ [](\A f \in FileIds :
             (req[1].pc = "idle" /\ Exists(f) /\ ~files[f].isDeleted
                  /\ isShareValid(files[f], now) /\ files[f].sharePassword = "none") =>
                 ENABLED (/\ ConsumeFind(1, files[f].shareToken, "none")
                          /\ req'[1].pc = "consumeFindOwner"))

\* a consume of the token of alice's soft-deleted file, whose share is valid,
\* has been answered NotFound
C39_Witness ==
    /\ resp = Response("anon", "consume", 404, "NotFound")
    /\ \E f \in FileIds :
          /\ Exists(f) /\ files[f].isDeleted
          /\ isShareValid(files[f], now)


\* C37: under any interleaving of failed logins on one account, whenever the
\* stored failed-login counter is at least 5 the account has lockUntil set.
C37_CounterAtLimitMeansLocked ==
    \A u \in AuthUsers :
        accounts[u].loginAttempts >= MaxAttempts => accounts[u].lockUntil # NoDate


\* C36: of a share with max-downloads N, under any interleaving of consumes,
\* at most N consumes deliver the file and the stored download-count is the
\* number of deliveries.
C36_ConsumesWithinLimit ==
    \A f \in FileIds :
        (Exists(f) /\ served[f].limit >= 1) =>
            /\ served[f].count <= served[f].limit
            /\ (\A r \in Reqs : req[r].pc = "idle") =>
                   files[f].downloadCount = served[f].count


\* C32: every record satisfies the bounds of the data model, whichever
\* operation wrote it: at most 20 tags of at most 50 characters, a description
\* of at most 500 characters, a name of at most 255 characters and a folder
\* that starts with "/".
C32_RecordWithinBounds ==
    \A f \in FileIds :
        Exists(f) =>
            /\ Len(files[f].tags) <= 20
            /\ \A i \in DOMAIN files[f].tags : Len(files[f].tags[i]) <= 50
            /\ Len(files[f].description) <= 500
            /\ Len(files[f].originalName) <= 255
            /\ files[f].folder # "" /\ SubSeq(files[f].folder, 1, 1) = "/"

\* C33: an update changes at most name, folder, tags, description and access
\* log of the addressed record, to which it appends one 'update' entry, and
\* no other record; an update that is refused changes nothing.
C33_UpdateFrame ==
    /\ [][resp'.op = "update" =>
              \A f \in FileIds :
                  Exists(f) =>
                      files'[f] = [files[f] EXCEPT
                                      !.originalName = files'[f].originalName,
                                      !.folder = files'[f].folder,
                                      !.tags = files'[f].tags,
                                      !.description = files'[f].description,
                                      !.accessLog = files'[f].accessLog]]_vars
    /\ [][(resp'.op = "update" /\ resp'.status # 200) =>
              files' = files /\ disk' = disk /\ storageUsed' = storageUsed]_vars
    /\ [][\A f \in FileIds :
             \A q \in {[ip |-> "ip2"], [ip |-> "ip2", originalName |-> "n2"],
                       [ip |-> "ip2", folder |-> "docs"]} :
                 (UpdateFields(1, "alice", f, q) /\ resp'.status = 200) =>
                     /\ \A g \in FileIds \ {f} : files'[g] = files[g]
                     /\ LET old == files[f].accessLog
                            new == files'[f].accessLog
                        IN new = Append(IF Len(old) < 100 THEN old ELSE Tail(old),
                                        [action |-> "update", timestamp |-> now,
                                         ip |-> "ip2"])]_vars

\* an update has given alice's file a new name and logged it
C33_Witness ==
    /\ resp = Response("alice", "update", 200, "none")
    /\ \E f \in FileIds :
          /\ Exists(f) /\ files[f].originalName = "n2"
          /\ files[f].accessLog # <<>>
          /\ files[f].accessLog[Len(files[f].accessLog)].action = "update"

-----------------------------------------------------------------------------
(* The upload queue of the browser *)

\* C40: every file that addFiles accepted into the queue is eventually sent
\* to the server and ends in status success or error, unless cancelUpload is
\* invoked; files added while the delayed clearing of onQueueComplete is
\* still to run are among them.
C40_AcceptedFilesAreUploaded ==
    \A i \in 1..MaxFiles :
        [](Uploader.items[i].status # "none" =>
              <>(\/ Uploader.cancelled
                 \/ /\ i \in Uploader.sent
                    /\ Uploader.items[i].status \in {"success", "error"}))

====
